---- MODULE Spec2Model ----
(***************************************************************************)
(* The RAG job queue (utils/queueService), its worker (workers/ragWorker), *)
(* the HTTP surface (routes/rag) and the answer cache and pipeline         *)
(* (utils/ragService) as state machines.                                   *)
(*                                                                         *)
(* Every Redis command is one step: the code awaits each command, so other *)
(* processes (and the heartbeat timer of the same process) interleave      *)
(* between any two of them.  A command either succeeds or rejects.         *)
(***************************************************************************)
EXTENDS Integers, Sequences, FiniteSets, TLC

\* ------------------------------------------------------------------ bounds
\* Number of uuids the API process can draw (jobs that can be enqueued).
MaxJobs == 2
\* Number of rejected Redis commands / connection error events in a run.
MaxErrors == 1

JobIds == 1..MaxJobs
NoJob == 0
Workers == {"w1", "w2"}
API == "api"
Procs == Workers \cup {API}
Absent == "absent"
\* a JavaScript value that was not passed
Undefined == "undefined"

\* ------------------------------------------------------- program constants
WORKER_TYPE == "rag"
DefaultPriority == 5
RoutePriority == 5
\* jobData.priority values handed to enqueueRagJob by a producer
PriorityInputs == {3, 9}
Questions == {"", "q"}
QueueKeys == {"queue:rag", "queue:any"}
\* every queue the code writes or reads
AllQueues == QueueKeys \cup {"queue:cpu", "queue:gpu"}
\* jobData.mimetype values handed to enqueueJob
MimetypeInputs == {"image/png", "application/pdf"}

VARIABLES
    \* Redis
    jobs,             \* job:<id> hashes
    zsets,            \* queue:<class> sorted sets: sets of [member, score]
    running,          \* running:<workerId> hashes: the set of their fields
    \* every process (API, workers)
    redisAvailable,   \* the module-level tri-state flag: "null", "true", "false"
    \* worker processes
    wpc,              \* position of workerLoop
    wqi,              \* index of claimJob's loop over its two queues
    wjob,             \* jobId of claimJob / job of workerLoop
    currentJob,       \* module-level currentJob (its job_id), NoJob for null
    heartbeatInterval,\* jobId captured by the running interval, NoJob for null
    hbpc,             \* position of an in-flight heartbeat callback
    hbjob,            \* jobId captured by the in-flight callback
    \* API process
    apc,              \* position of the request being served
    areq,             \* the request: route, question, priority, degraded
    ajob,             \* uuid drawn by enqueueRagJob
    uuids,            \* uuids drawn so far
    lastResp,         \* the last HTTP response sent
    \* history
    claimLog,         \* per job: how many times claimJob returned it
    writers,          \* per job: the workers that wrote progress/heartbeat/end
    errs              \* rejected commands and error events so far

redisVars == <<jobs, zsets, running>>
workerVars == <<wpc, wqi, wjob, currentJob, heartbeatInterval, hbpc, hbjob>>
apiVars == <<apc, areq, ajob, uuids, lastResp>>
histVars == <<claimLog, writers, errs>>
queueVars == <<redisVars, redisAvailable, workerVars, apiVars, histVars>>

\* utils/ragService (one process)
VARIABLES
    answerCache,      \* the Map: entries [key, value, timestamp], insertion order
    now,              \* Date.now()
    calls             \* the pipeline calls made: position, inputs, result

\* utils/embeddingService (same process)
VARIABLES
    serviceHealthy,   \* module-level serviceHealthy
    lastHealthCheck,  \* module-level lastHealthCheck
    embed,            \* the generateEmbedding calls: position, requests, result
    batch             \* the generateBatchEmbeddings call: position, results

embedVars == <<serviceHealthy, lastHealthCheck, embed, batch>>

ragVars == <<answerCache, now, calls, embedVars>>

\* process control of the workers (workers/ragWorker) and the record of the
\* API's answers
VARIABLES
    isShuttingDown,   \* module-level isShuttingDown of each worker
    spc,              \* position of shutdown(signal) of each worker
    exited,           \* "alive", or how the process ended: "0", "1", "killed"
    accepted,         \* the jobIds POST /ask has answered 202 with
    stats             \* what getQueueStats returned last

ctlVars == <<isShuttingDown, spc, exited, accepted, stats>>

\* the ioredis client of each process (services/queueService getRedisClient)
\* and the Redis server it connects to
VARIABLES
    redis,            \* module-level redis of each process: the client's
                      \* connection status and its count of reconnect attempts
    reachable         \* whether the API process can reach the Redis server

connVars == <<redis, reachable>>

\* redis = null (line 15): no client created yet; lazyConnect leaves a new
\* client unconnected until its first command
NoClient == [status |-> "wait", times |-> 0]
ReadyClient == [status |-> "ready", times |-> 0]


\* ------------------------------------------------------------ Redis model
\* a hash without its progress field
NoProgress == 0 - 1

\* a hash without its payload field
NoPayload == [task_type |-> Absent, priority |-> 0, userId |-> Absent, fileId |-> Absent]

NoHash ==
    [payload |-> NoPayload, status |-> Absent, worker_id |-> Absent,
     started_at |-> Absent, progress |-> NoProgress, last_heartbeat |-> Absent,
     result |-> Absent, error |-> Absent]

\* getJobStatus: a hash without fields does not exist
HashExists(h) == h # NoHash

\* getJobStatus: parseInt(data.progress) || 0
ProgressOf(h) == IF h.progress = NoProgress THEN 0 ELSE h.progress

\* enqueueRagJob: priority: jobData.priority || 5
EffectivePriority(p) == IF p = 0 THEN DefaultPriority ELSE p

\* enqueueRagJob: zadd(queue, -job.priority, jobId)
ZScore(priority) == 0 - priority

\* The entries ZPOPMAX may return: those with the highest score.  Among equal
\* scores Redis takes the lexicographically greatest member; the members are
\* v4 uuids, so any entry of the highest score can be that one.
ZMax(z) == {e \in z : \A f \in z : f.score <= e.score}

\* (mutant of ZPopMaxRest: the entry is read but not removed, as ZRANGE would)
ZPopMaxRestKept(z, e) == z

\* What ZPOPMAX leaves in the sorted set when it returns e.
ZPopMaxRest(z, e) == z \ {e}

\* (mutant of ClaimQueues: the worker's own queue is left out)
ClaimQueuesAnyOnly(workerType) == <<"queue:any">>

\* (mutant of ClaimQueues: the shared queue probed first)
ClaimQueuesAnyFirst(workerType) == <<"queue:any", "queue:" \o workerType>>

\* claimJob: const queues = [`queue:${workerType}`, 'queue:any']
ClaimQueues(workerType) == <<"queue:" \o workerType, "queue:any">>

\* A command that rejects is counted; the count is bounded.
Cmd(ok) ==
    /\ ok \/ errs < MaxErrors
    /\ errs' = IF ok THEN errs ELSE errs + 1

\* the process of worker w is running and has not quit its Redis client
Alive(w) == exited[w] = "alive" /\ spc[w] # "closed"

\* isRedisAvailable with the flag known (lines 22-24)
Known(p) == redisAvailable[p] # "null"
\* (mutant of Up: the operations go on whenever the flag is known)
UpWhenKnown(p) == redisAvailable[p] # "null"
Up(p) == redisAvailable[p] = "true"

\* ----------------------------------------------------------------- Init
\* (rejected: the rejections and error events counted as already spent)
QueueStart(rejected) ==
    /\ jobs = [j \in JobIds |-> NoHash]
    /\ zsets = [q \in AllQueues |-> {}]
    /\ running = [w \in Workers |-> {}]
    \* a worker enters workerLoop after checkConnection() returned true
    /\ redisAvailable = [p \in Procs |-> IF p = API THEN "null" ELSE "true"]
    /\ wpc = [w \in Workers |-> "loop"]
    /\ wqi = [w \in Workers |-> 1]
    /\ wjob = [w \in Workers |-> NoJob]
    /\ currentJob = [w \in Workers |-> NoJob]
    /\ heartbeatInterval = [w \in Workers |-> NoJob]
    /\ hbpc = [w \in Workers |-> "idle"]
    /\ hbjob = [w \in Workers |-> NoJob]
    /\ apc = "idle"
    /\ areq = [route |-> "none", question |-> "", priority |-> 0, degraded |-> FALSE,
        userId |-> Undefined, fileId |-> Undefined,
        mimetype |-> Undefined]
    /\ ajob = NoJob
    /\ uuids = {}
    /\ lastResp = [route |-> "none", status |-> 0, handler |-> "none", degraded |-> FALSE,
                   data |-> [jobId |-> NoJob, status |-> "none", progress |-> 0,
                             error |-> "null", result |-> "null"]]
    /\ claimLog = [j \in JobIds |-> 0]
    /\ writers = [j \in JobIds |-> {}]
    /\ errs = rejected

QueueInit == QueueStart(0)

\* ------------------------------------------------- availability tracking
\* isRedisAvailable with the flag unknown: PING (lines 26-35)
Ping(p, ok) ==
    /\ redisAvailable[p] = "null"
    /\ \/ p = API /\ apc \in {"enqueue", "status", "stats"}
       \/ p \in Workers /\ wpc[p] \in {"loop", "progress10", "progress90", "complete", "fail"}
    /\ Cmd(ok)
    /\ redisAvailable' = [redisAvailable EXCEPT ![p] = IF ok THEN "true" ELSE "false"]
    /\ UNCHANGED <<redisVars, workerVars, apiVars, claimLog, writers>>
    /\ UNCHANGED <<ragVars, ctlVars, connVars>>

\* redis.on('error') / redis.on('end') (lines 60-67)
RedisErrorEvent(p) ==
    /\ redisAvailable[p] = "true"
    /\ errs < MaxErrors
    /\ errs' = errs + 1
    /\ redisAvailable' = [redisAvailable EXCEPT ![p] = "false"]
    /\ UNCHANGED <<redisVars, workerVars, apiVars, claimLog, writers>>
    /\ UNCHANGED <<ragVars, ctlVars, connVars>>

\* redis.on('connect') (lines 69-72)
RedisConnectEvent(p) ==
    /\ redisAvailable[p] = "false"
    /\ redisAvailable' = [redisAvailable EXCEPT ![p] = "true"]
    /\ UNCHANGED <<redisVars, workerVars, apiVars, histVars>>
    /\ UNCHANGED <<ragVars, ctlVars, connVars>>

\* ------------------------------------------------------------ the worker
\* processJob: updateJobProgress(job.job_id, 10, 0) and (job.job_id, 90, 0)
ProgressAtStart == 10
\* (mutant of ProgressAtEnd: a second progress value below the first)
ProgressAtEndLower == ProgressAtStart - 1
ProgressAtEnd == 90

\* workerLoop lines 84-85: stopHeartbeat(); currentJob = null
Finish(w) ==
    /\ heartbeatInterval' = [heartbeatInterval EXCEPT ![w] = NoJob]
    /\ currentJob' = [currentJob EXCEPT ![w] = NoJob]
    /\ wjob' = [wjob EXCEPT ![w] = NoJob]
    /\ wpc' = [wpc EXCEPT ![w] = "loop"]

\* claimJob's loop: the next queue, or `return null` after the last one
NextQueue(w) ==
    IF wqi[w] < Len(ClaimQueues(WORKER_TYPE))
    THEN /\ wqi' = [wqi EXCEPT ![w] = wqi[w] + 1]
         /\ wpc' = [wpc EXCEPT ![w] = "zpopmax"]
         /\ UNCHANGED wjob
    ELSE /\ wqi' = [wqi EXCEPT ![w] = 1]
         /\ wpc' = [wpc EXCEPT ![w] = "loop"]
         /\ wjob' = [wjob EXCEPT ![w] = NoJob]

\* (mutant of OuterCatch: no outer try/catch, the rejection ends workerLoop)
OuterCatchMissing(w) ==
    /\ wpc' = [wpc EXCEPT ![w] = "rejected"]
    /\ UNCHANGED <<wqi, wjob>>

\* an exception inside claimJob or failJob reaches workerLoop's outer catch
\* (lines 89-92): sleep, then the next iteration; lines 84-85 are skipped
OuterCatch(w) ==
    /\ wpc' = [wpc EXCEPT ![w] = "loop"]
    /\ wqi' = [wqi EXCEPT ![w] = 1]
    /\ wjob' = [wjob EXCEPT ![w] = NoJob]

\* workerLoop line 71, claimJob lines 193-198
WClaim(w) ==
    /\ Alive(w)
    /\ wpc[w] = "loop"
    /\ ~isShuttingDown[w]
    /\ Known(w)
    /\ IF Up(w)
       THEN /\ wpc' = [wpc EXCEPT ![w] = "zpopmax"]
            /\ wqi' = [wqi EXCEPT ![w] = 1]
       ELSE UNCHANGED <<wpc, wqi>>
    /\ UNCHANGED <<redisVars, redisAvailable, wjob, currentJob, heartbeatInterval,
                   hbpc, hbjob, apiVars, histVars>>
    /\ UNCHANGED <<ragVars, ctlVars, connVars>>

\* claimJob line 201: client.zpopmax(queueKey, 1)
WZPopMax(w, ok) ==
    /\ Alive(w)
    /\ wpc[w] = "zpopmax"
    /\ Cmd(ok)
    /\ LET q == ClaimQueues(WORKER_TYPE)[wqi[w]] IN
       IF ~ok
       THEN OuterCatch(w) /\ UNCHANGED zsets
       ELSE IF zsets[q] = {}
            THEN NextQueue(w) /\ UNCHANGED zsets
            ELSE \E e \in ZMax(zsets[q]) :
                 /\ wjob' = [wjob EXCEPT ![w] = e.member]
                 /\ zsets' = [zsets EXCEPT ![q] = ZPopMaxRest(zsets[q], e)]
                 /\ wpc' = [wpc EXCEPT ![w] = "hget"]
                 /\ UNCHANGED wqi
    /\ UNCHANGED <<jobs, running, redisAvailable, currentJob, heartbeatInterval,
                   hbpc, hbjob, apiVars, claimLog, writers>>
    /\ UNCHANGED <<ragVars, ctlVars, connVars>>

\* claimJob lines 207-210: hget payload; a missing payload skips to the next queue
WHGet(w, ok) ==
    /\ Alive(w)
    /\ wpc[w] = "hget"
    /\ Cmd(ok)
    /\ IF ~ok
       THEN OuterCatch(w)
       ELSE IF jobs[wjob[w]].payload = NoPayload
            THEN NextQueue(w)
            ELSE /\ wpc' = [wpc EXCEPT ![w] = "hset_running"]
                 /\ UNCHANGED <<wqi, wjob>>
    /\ UNCHANGED <<redisVars, redisAvailable, currentJob, heartbeatInterval,
                   hbpc, hbjob, apiVars, claimLog, writers>>
    /\ UNCHANGED <<ragVars, ctlVars, connVars>>

\* (mutant of WHSetRunning: the command answers but the field is not written)
WHSetRunningOmitted(w, ok) ==
    /\ Alive(w)
    /\ wpc[w] = "hset_running"
    /\ Cmd(ok)
    /\ IF ok
       THEN /\ wpc' = [wpc EXCEPT ![w] = "hset_status"]
            /\ UNCHANGED <<wqi, wjob>>
       ELSE OuterCatch(w)
    /\ UNCHANGED <<redisVars, redisAvailable, currentJob, heartbeatInterval,
                   hbpc, hbjob, apiVars, claimLog, writers>>
    /\ UNCHANGED <<ragVars, ctlVars, connVars>>

\* claimJob line 215: hset(running:<workerId>, jobId, now)
WHSetRunning(w, ok) ==
    /\ Alive(w)
    /\ wpc[w] = "hset_running"
    /\ Cmd(ok)
    /\ IF ok
       THEN /\ running' = [running EXCEPT ![w] = @ \cup {wjob[w]}]
            /\ wpc' = [wpc EXCEPT ![w] = "hset_status"]
            /\ UNCHANGED <<wqi, wjob>>
       ELSE OuterCatch(w) /\ UNCHANGED running
    /\ UNCHANGED <<jobs, zsets, redisAvailable, currentJob, heartbeatInterval,
                   hbpc, hbjob, apiVars, claimLog, writers>>
    /\ UNCHANGED <<ragVars, ctlVars, connVars>>

\* claimJob line 216: hset(jobKey, 'status', 'running')
WHSetStatus(w, ok) ==
    /\ Alive(w)
    /\ wpc[w] = "hset_status"
    /\ Cmd(ok)
    /\ IF ok
       THEN /\ jobs' = [jobs EXCEPT ![wjob[w]].status = "running"]
            /\ wpc' = [wpc EXCEPT ![w] = "hset_started"]
            /\ UNCHANGED <<wqi, wjob>>
       ELSE OuterCatch(w) /\ UNCHANGED jobs
    /\ UNCHANGED <<zsets, running, redisAvailable, currentJob, heartbeatInterval,
                   hbpc, hbjob, apiVars, claimLog, writers>>
    /\ UNCHANGED <<ragVars, ctlVars, connVars>>

\* claimJob line 217: hset(jobKey, 'started_at', now)
WHSetStarted(w, ok) ==
    /\ Alive(w)
    /\ wpc[w] = "hset_started"
    /\ Cmd(ok)
    /\ IF ok
       THEN /\ jobs' = [jobs EXCEPT ![wjob[w]].started_at = "set"]
            /\ wpc' = [wpc EXCEPT ![w] = "hset_worker"]
            /\ UNCHANGED <<wqi, wjob>>
       ELSE OuterCatch(w) /\ UNCHANGED jobs
    /\ UNCHANGED <<zsets, running, redisAvailable, currentJob, heartbeatInterval,
                   hbpc, hbjob, apiVars, claimLog, writers>>
    /\ UNCHANGED <<ragVars, ctlVars, connVars>>

\* claimJob lines 218-221: hset(jobKey, 'worker_id', workerId); return job;
\* workerLoop lines 73-75: currentJob = job; startHeartbeat(job.job_id)
WHSetWorker(w, ok) ==
    /\ Alive(w)
    /\ wpc[w] = "hset_worker"
    /\ Cmd(ok)
    /\ IF ok
       THEN /\ jobs' = [jobs EXCEPT ![wjob[w]].worker_id = w]
            /\ currentJob' = [currentJob EXCEPT ![w] = wjob[w]]
            /\ heartbeatInterval' = [heartbeatInterval EXCEPT ![w] = wjob[w]]
            /\ claimLog' = [claimLog EXCEPT ![wjob[w]] = @ + 1]
            /\ wpc' = [wpc EXCEPT ![w] = "progress10"]
            /\ UNCHANGED <<wqi, wjob>>
       ELSE OuterCatch(w) /\ UNCHANGED <<jobs, currentJob, heartbeatInterval, claimLog>>
    /\ UNCHANGED <<zsets, running, redisAvailable, hbpc, hbjob, apiVars, writers>>
    /\ UNCHANGED <<ragVars, ctlVars, connVars>>

\* processJob lines 27 and 42, updateJobProgress lines 231-241.  An exception
\* leaves processJob and reaches workerLoop's inner catch (line 80).
WProgress(w, ok) ==
    /\ Alive(w)
    /\ wpc[w] \in {"progress10", "progress90"}
    /\ Known(w)
    /\ LET value == IF wpc[w] = "progress10" THEN ProgressAtStart ELSE ProgressAtEnd
           next == IF wpc[w] = "progress10" THEN "pipeline" ELSE "complete" IN
       IF ~Up(w)
       THEN /\ ok
            /\ wpc' = [wpc EXCEPT ![w] = next]
            /\ UNCHANGED <<jobs, writers, errs>>
       ELSE /\ Cmd(ok)
            /\ IF ok
               THEN /\ jobs' = [jobs EXCEPT ![wjob[w]].progress = value,
                                            ![wjob[w]].last_heartbeat = "set"]
                    /\ writers' = [writers EXCEPT ![wjob[w]] = @ \cup {w}]
                    /\ wpc' = [wpc EXCEPT ![w] = next]
               ELSE /\ wpc' = [wpc EXCEPT ![w] = "fail"]
                    /\ UNCHANGED <<jobs, writers>>
    /\ UNCHANGED <<zsets, running, redisAvailable, wqi, wjob, currentJob,
                   heartbeatInterval, hbpc, hbjob, apiVars, claimLog>>
    /\ UNCHANGED <<ragVars, ctlVars, connVars>>

\* processJob lines 29-40: answerQuestion / answerQuestionForFile returns or throws
WPipeline(w, returns) ==
    /\ Alive(w)
    /\ wpc[w] = "pipeline"
    /\ wpc' = [wpc EXCEPT ![w] = IF returns THEN "progress90" ELSE "fail"]
    /\ UNCHANGED <<redisVars, redisAvailable, wqi, wjob, currentJob, heartbeatInterval,
                   hbpc, hbjob, apiVars, histVars>>
    /\ UNCHANGED <<ragVars, ctlVars, connVars>>

\* completeJob lines 258-265: hset status, completed_at, result.  With the flag
\* down it returns at once and workerLoop goes on to lines 84-85.
WCompleteHSet(w, ok) ==
    /\ Alive(w)
    /\ wpc[w] = "complete"
    /\ Known(w)
    /\ IF ~Up(w)
       THEN /\ ok
            /\ Finish(w)
            /\ UNCHANGED <<jobs, writers, errs>>
       ELSE /\ Cmd(ok)
            /\ IF ok
               THEN /\ jobs' = [jobs EXCEPT ![wjob[w]].status = "completed",
                                            ![wjob[w]].result = "set"]
                    /\ writers' = [writers EXCEPT ![wjob[w]] = @ \cup {w}]
                    /\ wpc' = [wpc EXCEPT ![w] = "complete_hdel"]
               ELSE /\ wpc' = [wpc EXCEPT ![w] = "fail"]
                    /\ UNCHANGED <<jobs, writers>>
            /\ UNCHANGED <<wjob, currentJob, heartbeatInterval>>
    /\ UNCHANGED <<zsets, running, redisAvailable, wqi, hbpc, hbjob, apiVars, claimLog>>
    /\ UNCHANGED <<ragVars, ctlVars, connVars>>

\* completeJob line 266: hdel(running:<workerId>, jobId); workerLoop lines 80-85
WCompleteHDel(w, ok) ==
    /\ Alive(w)
    /\ wpc[w] = "complete_hdel"
    /\ Cmd(ok)
    /\ IF ok
       THEN /\ running' = [running EXCEPT ![w] = @ \ {wjob[w]}]
            /\ Finish(w)
       ELSE /\ wpc' = [wpc EXCEPT ![w] = "fail"]
            /\ UNCHANGED <<running, wjob, currentJob, heartbeatInterval>>
    /\ UNCHANGED <<jobs, zsets, redisAvailable, wqi, hbpc, hbjob, apiVars, claimLog, writers>>
    /\ UNCHANGED <<ragVars, ctlVars, connVars>>

\* failJob lines 274-281: hset status, failed_at, error.  An exception of
\* failJob leaves the inner catch block: lines 84-85 are skipped.
WFailHSet(w, ok) ==
    /\ Alive(w)
    /\ wpc[w] = "fail"
    /\ Known(w)
    /\ IF ~Up(w)
       THEN /\ ok
            /\ Finish(w)
            /\ UNCHANGED <<jobs, writers, errs, wqi>>
       ELSE /\ Cmd(ok)
            /\ IF ok
               THEN /\ jobs' = [jobs EXCEPT ![wjob[w]].status = "failed",
                                            ![wjob[w]].error = "set"]
                    /\ writers' = [writers EXCEPT ![wjob[w]] = @ \cup {w}]
                    /\ wpc' = [wpc EXCEPT ![w] = "fail_hdel"]
                    /\ UNCHANGED <<wqi, wjob, currentJob, heartbeatInterval>>
               ELSE /\ OuterCatch(w)
                    /\ UNCHANGED <<jobs, writers, currentJob, heartbeatInterval>>
    /\ UNCHANGED <<zsets, running, redisAvailable, hbpc, hbjob, apiVars, claimLog>>
    /\ UNCHANGED <<ragVars, ctlVars, connVars>>

\* failJob line 282: hdel(running:<workerId>, jobId); workerLoop lines 84-85
WFailHDel(w, ok) ==
    /\ Alive(w)
    /\ wpc[w] = "fail_hdel"
    /\ Cmd(ok)
    /\ IF ok
       THEN /\ running' = [running EXCEPT ![w] = @ \ {wjob[w]}]
            /\ Finish(w)
            /\ UNCHANGED wqi
       ELSE /\ OuterCatch(w)
            /\ UNCHANGED <<running, currentJob, heartbeatInterval>>
    /\ UNCHANGED <<jobs, zsets, redisAvailable, hbpc, hbjob, apiVars, claimLog, writers>>
    /\ UNCHANGED <<ragVars, ctlVars, connVars>>

\* startHeartbeat's interval callback (lines 48-56) and sendHeartbeat's
\* availability check (line 247)
HbTick(w) ==
    /\ Alive(w)
    /\ heartbeatInterval[w] # NoJob
    /\ hbpc[w] = "idle"
    /\ Known(w)
    /\ IF currentJob[w] # NoJob /\ Up(w)
       THEN /\ hbpc' = [hbpc EXCEPT ![w] = "hb_job"]
            /\ hbjob' = [hbjob EXCEPT ![w] = heartbeatInterval[w]]
       ELSE UNCHANGED <<hbpc, hbjob>>
    /\ UNCHANGED <<redisVars, redisAvailable, wpc, wqi, wjob, currentJob,
                   heartbeatInterval, apiVars, histVars>>
    /\ UNCHANGED <<ragVars, ctlVars, connVars>>

\* sendHeartbeat line 250: hset(job:<id>, 'last_heartbeat', now); an exception
\* is caught by the callback (line 52)
HbHSetJob(w, ok) ==
    /\ Alive(w)
    /\ hbpc[w] = "hb_job"
    /\ Cmd(ok)
    /\ IF ok
       THEN /\ jobs' = [jobs EXCEPT ![hbjob[w]].last_heartbeat = "set"]
            /\ writers' = [writers EXCEPT ![hbjob[w]] = @ \cup {w}]
            /\ hbpc' = [hbpc EXCEPT ![w] = "hb_running"]
            /\ UNCHANGED hbjob
       ELSE /\ hbpc' = [hbpc EXCEPT ![w] = "idle"]
            /\ hbjob' = [hbjob EXCEPT ![w] = NoJob]
            /\ UNCHANGED <<jobs, writers>>
    /\ UNCHANGED <<zsets, running, redisAvailable, wpc, wqi, wjob, currentJob,
                   heartbeatInterval, apiVars, claimLog>>
    /\ UNCHANGED <<ragVars, ctlVars, connVars>>

\* sendHeartbeat line 251: hset(running:<workerId>, jobId, now)
HbHSetRunning(w, ok) ==
    /\ Alive(w)
    /\ hbpc[w] = "hb_running"
    /\ Cmd(ok)
    /\ running' = IF ok THEN [running EXCEPT ![w] = @ \cup {hbjob[w]}] ELSE running
    /\ hbpc' = [hbpc EXCEPT ![w] = "idle"]
    /\ hbjob' = [hbjob EXCEPT ![w] = NoJob]
    /\ UNCHANGED <<jobs, zsets, redisAvailable, wpc, wqi, wjob, currentJob,
                   heartbeatInterval, apiVars, claimLog, writers>>
    /\ UNCHANGED <<ragVars, ctlVars, connVars>>

\* --------------------------------------------------------- the API process
NoReq == [route |-> "none", question |-> "", priority |-> 0, degraded |-> FALSE,
        userId |-> Undefined, fileId |-> Undefined,
        mimetype |-> Undefined]
\* a response body without a job snapshot
NoData == [jobId |-> NoJob, status |-> "none", progress |-> 0, error |-> "null",
           result |-> "null"]

NoResp == [route |-> "none", status |-> 0, handler |-> "none", degraded |-> FALSE,
           data |-> NoData]

\* no call of getQueueStats answered
NoStats == [answered |-> "none", cpu |-> 0, gpu |-> 0, any |-> 0, total |-> 0]

\* what the handlers send with res.status(...).json(...): the route asked, the
\* status, the handler that sent it, and whether enqueueRagJob had returned null
Response(route, status, handler, degraded) ==
    [route |-> route, status |-> status, handler |-> handler, degraded |-> degraded,
     data |-> NoData]

\* enqueueJob line 91: jobData.mimetype?.includes('image') ? 'gpu' : 'cpu'
WorkerTypeOf(mimetype) == IF mimetype = "image/png" THEN "gpu" ELSE "cpu"

\* the queue of the call: enqueueJob line 113, enqueueRagJob line 168
EnqueueQueue(jobData) ==
    IF jobData.route = "enqueue-file"
    THEN "queue:" \o WorkerTypeOf(jobData.mimetype)
    ELSE "queue:rag"

\* enqueueJob lines 93-109, enqueueRagJob lines 148-165: the job object that is
\* JSON-encoded
JobPayload(jobData) ==
    [task_type |-> IF jobData.route = "enqueue-file" THEN "PROCESS_FILE"
                   ELSE IF jobData.fileId # Undefined THEN "RAG_QUERY_FILE"
                   ELSE "RAG_QUERY",
     priority |-> EffectivePriority(jobData.priority),
     userId |-> jobData.userId,
     fileId |-> IF jobData.fileId # Undefined THEN jobData.fileId ELSE "null"]

\* handleAskSync line 21 / router.post('/ask') line 91
ValidQuestion(q) == q # ""

\* (mutant of EnqueueOnError: no try/catch around hset and zadd)
EnqueueOnErrorUncaught == "throw"

\* enqueueRagJob lines 179-183: a failed hset / zadd is caught and null returned
EnqueueOnError == "null"

\* enqueueRagJob returned null.  router.post('/ask') lines 106-109 falls back
\* to handleAskSync(req, res), router.post('/ask-file/:fileId') lines 174-178
\* to answerQuestionForFile; another caller just gets the null.
EnqueueReturnsNull ==
    /\ ajob' = NoJob
    /\ IF areq.route = "ask"
       THEN /\ apc' = "sync"
            /\ areq' = [areq EXCEPT !.degraded = TRUE]
       ELSE IF areq.route = "ask-file"
       THEN /\ apc' = "syncfile"
            /\ areq' = [areq EXCEPT !.degraded = TRUE]
       ELSE /\ apc' = "idle"
            /\ areq' = NoReq
    /\ UNCHANGED lastResp

\* enqueueRagJob threw: router.post('/ask') lines 117-123,
\* router.post('/ask-file/:fileId') lines 193-200
EnqueueThrows ==
    /\ ajob' = NoJob
    /\ apc' = "idle"
    /\ areq' = NoReq
    /\ lastResp' = IF areq.route \in {"ask", "ask-file"}
                   THEN Response(areq.route, 500, areq.route, TRUE)
                   ELSE lastResp

EnqueueFails ==
    IF EnqueueOnError = "null" THEN EnqueueReturnsNull ELSE EnqueueThrows

\* A call of enqueueRagJob(jobData) with a priority of the caller's choice
\* (lines 139-146 up to the availability check)
EnqueueCall(priority) ==
    /\ apc = "idle"
    /\ Cardinality(uuids) < MaxJobs
    /\ areq' = [route |-> "enqueue", question |-> "q", priority |-> priority,
                degraded |-> FALSE, userId |-> "u1", fileId |-> Undefined,
                mimetype |-> Undefined]
    /\ apc' = "enqueue"
    /\ lastResp' = NoResp
    /\ UNCHANGED <<redisVars, redisAvailable, workerVars, ajob, uuids, histVars>>
    /\ UNCHANGED <<ragVars, ctlVars, connVars>>

\* A call of enqueueJob(jobData) for an uploaded file (lines 83-84 up to the
\* availability check)
EnqueueFileCall(priority, mimetype) ==
    /\ apc = "idle"
    /\ Cardinality(uuids) < MaxJobs
    /\ areq' = [route |-> "enqueue-file", question |-> "", priority |-> priority,
                degraded |-> FALSE, userId |-> "u1", fileId |-> "f1",
                mimetype |-> mimetype]
    /\ apc' = "enqueue"
    /\ lastResp' = NoResp
    /\ UNCHANGED <<redisVars, redisAvailable, workerVars, ajob, uuids, histVars>>
    /\ UNCHANGED <<ragVars, ctlVars, connVars>>

\* POST /ask arrives: validation (lines 87-96), then enqueueRagJob with
\* priority: 5 (lines 98-104)
AskRequest(question) ==
    /\ apc = "idle"
    /\ Cardinality(uuids) < MaxJobs
    /\ IF ValidQuestion(question)
       THEN /\ areq' = [route |-> "ask", question |-> question,
                         priority |-> RoutePriority, degraded |-> FALSE,
                         userId |-> "u1", fileId |-> Undefined,
                         mimetype |-> Undefined]
            /\ lastResp' = NoResp
            /\ apc' = "enqueue"
       ELSE /\ lastResp' = Response("ask", 400, "ask", FALSE)
            /\ UNCHANGED <<areq, apc>>
    /\ UNCHANGED <<redisVars, redisAvailable, workerVars, ajob, uuids, histVars>>
    /\ UNCHANGED <<ragVars, ctlVars, connVars>>

\* POST /ask-sync arrives (line 131)
AskSyncRequest(question) ==
    /\ apc = "idle"
    /\ areq' = [route |-> "ask-sync", question |-> question,
                priority |-> 0, degraded |-> FALSE,
                userId |-> "u1", fileId |-> Undefined,
                mimetype |-> Undefined]
    /\ lastResp' = NoResp
    /\ apc' = "sync"
    /\ UNCHANGED <<redisVars, redisAvailable, workerVars, ajob, uuids, histVars>>
    /\ UNCHANGED <<ragVars, ctlVars, connVars>>

\* uuidv4(): an id not in use.  The ids are numbered in the order they are
\* drawn (the lowest free number); their lexicographic order is left open
\* (see ZMax).
Uuidv4 == CHOOSE id \in JobIds \ uuids : \A other \in JobIds \ uuids : id <= other

\* enqueueRagJob lines 140-146: availability check, uuidv4()
ApiEnqueue(id) ==
    /\ apc = "enqueue"
    /\ Known(API)
    /\ id \notin uuids
    /\ id = Uuidv4
    /\ IF Up(API)
       THEN /\ ajob' = id
            /\ uuids' = uuids \cup {id}
            /\ apc' = "hset"
            /\ UNCHANGED <<areq, lastResp>>
       ELSE /\ EnqueueReturnsNull
            /\ UNCHANGED uuids
    /\ UNCHANGED <<redisVars, redisAvailable, workerVars, histVars>>
    /\ UNCHANGED <<ragVars, ctlVars, connVars>>

\* (mutant of QueuedHash: the hash written without its payload field)
QueuedHashNoPayload(h, job) == [h EXCEPT !.status = "queued"]

\* the fields of lines 116-121 / 171-176 written over hash h
QueuedHash(h, job) == [h EXCEPT !.payload = job, !.status = "queued"]

\* enqueueJob lines 116-121, enqueueRagJob lines 171-176:
\* hset(jobKey, {payload, metadata, status, created_at})
ApiHSet(ok) ==
    /\ apc = "hset"
    /\ Cmd(ok)
    /\ IF ok
       THEN /\ jobs' = [jobs EXCEPT ![ajob] = QueuedHash(@, JobPayload(areq))]
            /\ apc' = "zadd"
            /\ UNCHANGED <<redisAvailable, areq, ajob, lastResp>>
       ELSE /\ redisAvailable' = [redisAvailable EXCEPT ![API] = "false"]
            /\ EnqueueFails
            /\ UNCHANGED jobs
    /\ UNCHANGED <<zsets, running, workerVars, uuids, claimLog, writers>>
    /\ UNCHANGED <<ragVars, ctlVars, connVars>>

\* enqueueJob line 123, enqueueRagJob line 178: zadd(queue, -job.priority,
\* jobId); lines 130-131, 185-186;
\* router.post('/ask') lines 111-116, router.post('/ask-file/:fileId') lines
\* 186-191
ApiZAdd(ok) ==
    /\ apc = "zadd"
    /\ Cmd(ok)
    /\ IF ok
       THEN /\ zsets' = [zsets EXCEPT ![EnqueueQueue(areq)] = @ \cup
                           {[member |-> ajob,
                             score |-> ZScore(EffectivePriority(areq.priority))]}]
            /\ apc' = "idle"
            /\ ajob' = NoJob
            /\ areq' = NoReq
            /\ lastResp' = IF areq.route \in {"ask", "ask-file"}
                           THEN Response(areq.route, 202, areq.route, FALSE)
                           ELSE lastResp
            /\ accepted' = IF areq.route = "ask" THEN accepted \cup {ajob}
                           ELSE accepted
            /\ UNCHANGED redisAvailable
       ELSE /\ redisAvailable' = [redisAvailable EXCEPT ![API] = "false"]
            /\ EnqueueFails
            /\ UNCHANGED <<zsets, accepted>>
    /\ UNCHANGED <<jobs, running, workerVars, uuids, claimLog, writers>>
    /\ UNCHANGED <<ragVars, isShuttingDown, spc, exited, stats, connVars>>

\* handleAskSync lines 14-80: 400 for an invalid question, 200 with the
\* pipeline's record, 500 when File.find or answerQuestion throws
ApiSync(returns) ==
    /\ apc = "sync"
    /\ apc' = "idle"
    /\ areq' = NoReq
    /\ lastResp' =
          Response(areq.route,
                   IF ~ValidQuestion(areq.question) THEN 400
                   ELSE IF returns THEN 200 ELSE 500,
                   "handleAskSync", areq.degraded)
    /\ UNCHANGED <<redisVars, redisAvailable, workerVars, ajob, uuids, histVars>>
    /\ UNCHANGED <<ragVars, ctlVars, connVars>>

\* ------------------------------------------------- shutdown(signal)
\* SIGINT / SIGTERM arrives (lines 145-146); shutdown lines 97-101: the flag,
\* stopHeartbeat(), and the test of currentJob
ShutdownSignal(w) ==
    /\ exited[w] = "alive"
    /\ spc[w] = "none"
    /\ isShuttingDown' = [isShuttingDown EXCEPT ![w] = TRUE]
    /\ heartbeatInterval' = [heartbeatInterval EXCEPT ![w] = NoJob]
    /\ spc' = [spc EXCEPT ![w] = IF currentJob[w] # NoJob THEN "waiting"
                                  ELSE "disconnect"]
    /\ UNCHANGED <<redisVars, redisAvailable, wpc, wqi, wjob, currentJob, hbpc, hbjob,
                   apiVars, histVars, ragVars, exited, accepted, stats, connVars>>

\* shutdown lines 108-111: the 500 ms poll finds currentJob null
ShutdownPoll(w) ==
    /\ exited[w] = "alive"
    /\ spc[w] = "waiting"
    /\ currentJob[w] = NoJob
    /\ spc' = [spc EXCEPT ![w] = "disconnect"]
    /\ UNCHANGED <<queueVars, ragVars, isShuttingDown, exited, accepted, stats, connVars>>

\* shutdown lines 103-106: the 30 s timer fires first, process.exit(1)
ShutdownTimeout(w) ==
    /\ exited[w] = "alive"
    /\ spc[w] = "waiting"
    /\ exited' = [exited EXCEPT ![w] = "1"]
    /\ UNCHANGED <<queueVars, ragVars, isShuttingDown, spc, accepted, stats, connVars>>

\* shutdown line 115, disconnect lines 348-354: redis.quit(), redis = null,
\* redisAvailable = null
ShutdownDisconnect(w) ==
    /\ exited[w] = "alive"
    /\ spc[w] = "disconnect"
    /\ spc' = [spc EXCEPT ![w] = "closed"]
    /\ redisAvailable' = [redisAvailable EXCEPT ![w] = "null"]
    /\ UNCHANGED <<redisVars, workerVars, apiVars, histVars, ragVars,
                   isShuttingDown, exited, accepted, stats, connVars>>

\* a command of claimJob on the client that was quit is rejected: workerLoop's
\* outer catch (lines 89-92)
WAfterQuit(w) ==
    /\ exited[w] = "alive"
    /\ spc[w] = "closed"
    /\ wpc[w] \in {"zpopmax", "hget", "hset_running", "hset_status",
                   "hset_started", "hset_worker"}
    /\ OuterCatch(w)
    /\ UNCHANGED <<redisVars, redisAvailable, currentJob, heartbeatInterval, hbpc,
                   hbjob, apiVars, histVars, ragVars, ctlVars, connVars>>

\* shutdown lines 116-122: mongoose.disconnect(), process.exit(0)
ShutdownExit(w) ==
    /\ exited[w] = "alive"
    /\ spc[w] = "closed"
    /\ exited' = [exited EXCEPT ![w] = "0"]
    /\ UNCHANGED <<queueVars, ragVars, isShuttingDown, spc, accepted, stats, connVars>>

\* the worker process is terminated from outside (SIGKILL, out of memory,
\* power loss) at any point: no handler runs
Crash(w) ==
    /\ exited[w] = "alive"
    /\ exited' = [exited EXCEPT ![w] = "killed"]
    /\ UNCHANGED <<queueVars, ragVars, isShuttingDown, spc, accepted, stats, connVars>>

\* ------------------------------------------- POST /ask-file/:fileId
\* The file registry (models/File): the files and the user each belongs to.
FileOwner == [f \in {"f1", "f2"} |-> IF f = "f1" THEN "u1" ELSE "u2"]

\* the fileIds a request may name: the registered ones and one that is not
FileIdInputs == DOMAIN FileOwner \cup {"f9"}

\* (mutant of FindOne: the query leaves out userId)
FindOneAnyUser(fileId, userId) == fileId \in DOMAIN FileOwner

\* File.findOne({ _id: fileId, userId }) found a document (lines 151-154)
FindOne(fileId, userId) ==
    fileId \in DOMAIN FileOwner /\ FileOwner[fileId] = userId

\* POST /ask-file/:fileId arrives: validation (lines 139-148), then the
\* registry query is awaited
AskFileRequest(question, userId, fileId) ==
    /\ apc = "idle"
    /\ Cardinality(uuids) < MaxJobs
    /\ IF ValidQuestion(question)
       THEN /\ areq' = [route |-> "ask-file", question |-> question,
                         priority |-> RoutePriority, degraded |-> FALSE,
                         userId |-> userId, fileId |-> fileId,
                         mimetype |-> Undefined]
            /\ lastResp' = NoResp
            /\ apc' = "findOne"
       ELSE /\ lastResp' = Response("ask-file", 400, "ask-file", FALSE)
            /\ UNCHANGED <<areq, apc>>
    /\ UNCHANGED <<redisVars, redisAvailable, workerVars, ajob, uuids, histVars>>
    /\ UNCHANGED <<ragVars, ctlVars, connVars>>

\* File.findOne answers (lines 151-161) or rejects (lines 193-200); with a
\* document the handler goes on to enqueueRagJob (lines 165-172)
ApiFindOne(ok) ==
    /\ apc = "findOne"
    /\ IF ok /\ FindOne(areq.fileId, areq.userId)
       THEN /\ apc' = "enqueue"
            /\ UNCHANGED <<areq, lastResp>>
       ELSE /\ apc' = "idle"
            /\ areq' = NoReq
            /\ lastResp' = Response("ask-file", IF ok THEN 404 ELSE 500,
                                    "ask-file", FALSE)
    /\ UNCHANGED <<redisVars, redisAvailable, workerVars, ajob, uuids, histVars>>
    /\ UNCHANGED <<ragVars, ctlVars, connVars>>

\* the fallback of lines 174-184: answerQuestionForFile(question, fileId, ...)
\* returns (200) or throws (500, lines 193-200)
ApiSyncFile(returns) ==
    /\ apc = "syncfile"
    /\ apc' = "idle"
    /\ areq' = NoReq
    /\ lastResp' = Response("ask-file", IF returns THEN 200 ELSE 500,
                            "ask-file", areq.degraded)
    /\ UNCHANGED <<redisVars, redisAvailable, workerVars, ajob, uuids, histVars>>
    /\ UNCHANGED <<ragVars, ctlVars, connVars>>

\* ------------------------------------------------ GET /status/:jobId
\* GET /status/:jobId arrives (lines 208-211): getJobStatus(jobId) is called
StatusRequestBy(user, id) ==
    /\ apc = "idle"
    /\ areq' = [NoReq EXCEPT !.route = "status", !.userId = user]
    /\ ajob' = id
    /\ lastResp' = NoResp
    /\ apc' = "status"
    /\ UNCHANGED <<redisVars, redisAvailable, workerVars, uuids, histVars>>
    /\ UNCHANGED <<ragVars, ctlVars, connVars>>

StatusRequest(id) == StatusRequestBy("u1", id)

\* getJobStatus lines 299-310: the snapshot built from the hash
JobStatus(jobId, data) ==
    [jobId |-> jobId,
     status |-> IF data.status = Absent THEN "unknown" ELSE data.status,
     progress |-> ProgressOf(data),
     error |-> IF data.error = Absent THEN "null" ELSE data.error,
     result |-> IF data.result = Absent THEN "null" ELSE data.result]

\* what the route sends for getJobStatus's return value (lines 213-223)
StatusResponse(found) ==
    Response("status", IF found THEN 200 ELSE 404, "status", FALSE)

\* getJobStatus line 290: with the flag down it returns null
ApiStatus ==
    /\ apc = "status"
    /\ Known(API)
    /\ IF Up(API)
       THEN /\ apc' = "hgetall"
            /\ UNCHANGED <<areq, ajob, lastResp>>
       ELSE /\ apc' = "idle"
            /\ areq' = NoReq
            /\ ajob' = NoJob
            /\ lastResp' = StatusResponse(FALSE)
    /\ UNCHANGED <<redisVars, redisAvailable, workerVars, uuids, histVars>>
    /\ UNCHANGED <<ragVars, ctlVars, connVars>>

\* getJobStatus lines 293-310: hgetall(job:<jobId>), null for an empty hash;
\* a rejection is caught by the route (lines 224-230)
ApiHGetAll(ok) ==
    /\ apc = "hgetall"
    /\ Cmd(ok)
    /\ apc' = "idle"
    /\ areq' = NoReq
    /\ ajob' = NoJob
    /\ lastResp' = IF ok
                   THEN IF HashExists(jobs[ajob])
                        THEN [StatusResponse(TRUE) EXCEPT
                                 !.data = JobStatus(ajob, jobs[ajob])]
                        ELSE StatusResponse(FALSE)
                   ELSE Response("status", 500, "status", FALSE)
    /\ UNCHANGED <<redisVars, redisAvailable, workerVars, uuids, claimLog, writers>>
    /\ UNCHANGED <<ragVars, ctlVars, connVars>>

\* getJobStatus
StatusStep ==
    \/ ApiStatus
    \/ \E ok \in BOOLEAN : ApiHGetAll(ok)

\* ------------------------------------------------------- getQueueStats
\* getQueueStats() is called (line 316, up to the availability check)
StatsCall ==
    /\ apc = "idle"
    /\ areq' = [NoReq EXCEPT !.route = "stats"]
    /\ apc' = "stats"
    /\ stats' = NoStats
    /\ UNCHANGED <<redisVars, redisAvailable, workerVars, ajob, uuids, lastResp,
                   histVars>>
    /\ UNCHANGED <<ragVars, isShuttingDown, spc, exited, accepted, connVars>>

\* the queues of the three zcard commands, lines 323-325
StatQueues == {"queue:cpu", "queue:gpu", "queue:any"}

\* client.zcard(key)
ZCard(key) == Cardinality(zsets[key])

\* cpuQueue + gpuQueue + anyQueue (line 333) over the queues counted
RECURSIVE SumZCard(_)
SumZCard(keys) ==
    IF keys = {} THEN 0
    ELSE LET key == CHOOSE k \in keys : TRUE
         IN ZCard(key) + SumZCard(keys \ {key})

\* the object of lines 328-335 (cpu, gpu and any are 0 for a queue not counted)
QueueStats(answered) ==
    [answered |-> answered,
     cpu |-> IF "queue:cpu" \in StatQueues THEN ZCard("queue:cpu") ELSE 0,
     gpu |-> IF "queue:gpu" \in StatQueues THEN ZCard("queue:gpu") ELSE 0,
     any |-> IF "queue:any" \in StatQueues THEN ZCard("queue:any") ELSE 0,
     total |-> SumZCard(StatQueues)]

\* getQueueStats lines 317-319: the zeros returned when Redis is not available
ApiStats ==
    /\ apc = "stats"
    /\ Known(API)
    /\ IF Up(API)
       THEN /\ apc' = "zcard"
            /\ UNCHANGED <<areq, stats>>
       ELSE /\ apc' = "idle"
            /\ areq' = NoReq
            /\ stats' = [NoStats EXCEPT !.answered = "unavailable"]
    /\ UNCHANGED <<redisVars, redisAvailable, workerVars, ajob, uuids, lastResp,
                   histVars>>
    /\ UNCHANGED <<ragVars, isShuttingDown, spc, exited, accepted, connVars>>

\* lines 322-335: the three zcard commands, sent together, answer or reject
ApiZCard(ok) ==
    /\ apc = "zcard"
    /\ Cmd(ok)
    /\ apc' = "idle"
    /\ areq' = NoReq
    /\ stats' = IF ok THEN QueueStats("counted")
                ELSE [NoStats EXCEPT !.answered = "threw"]
    /\ UNCHANGED <<redisVars, redisAvailable, workerVars, ajob, uuids, lastResp,
                   claimLog, writers>>
    /\ UNCHANGED <<ragVars, isShuttingDown, spc, exited, accepted, connVars>>

\* ===================================================== utils/ragService
\* ------------------------------------------------------------------ bounds
\* Number of answerQuestion / answerQuestionForFile calls in a run.
MaxCalls == 3
\* Number of calls in the runs that range over users, modes and files.
MaxQueries == 2
\* Number of clock steps in a run (each of the cache TTL).
MaxTicks == 2
\* Longest ranked list a retrieval service returns.
MaxResults == 2
\* Calls of generateEmbedding.
MaxEmbeds == 2
\* The time, in ms, up to which the embedding calls are followed.
MaxEmbedTime == 125000
\* The numbers of texts passed to generateBatchEmbeddings.
BatchLengths == {0, 1, 12, 13, 25}

\* ------------------------------------------------------- program constants
CACHE_TTL_MS == 5 * 60 * 1000
MAX_CACHE_SIZE == 200
\* minScore in hundredths
DEFAULT_CONFIG ==
    [topK |-> 5, minScore |-> 30, maxContextLength |-> 4000,
     searchMode |-> "hybrid", rrfK |-> 60]
SearchModes == {"hybrid", "vector", "bm25"}

\* The indexed chunks (output of the ingestion pipeline): owner, file, the
\* cosine similarity to the question in hundredths, the file's name and the
\* number of characters of the chunk's text.
Corpus ==
    [c1 |-> [userId |-> "u1", fileId |-> "f1", score |-> 50,
             fileName |-> "a.pdf", text |-> 3000],
     c2 |-> [userId |-> "u1", fileId |-> "f1", score |-> 20,
             fileName |-> "a.pdf", text |-> 1500],
     c3 |-> [userId |-> "u2", fileId |-> "f2", score |-> 50,
             fileName |-> "b.pdf", text |-> 3000]]
Users == {"u1", "u2"}
Files == {"f1", "f2"}
Answers == {"a1", "a2"}

Calls == 1..MaxCalls
Queries == 1..MaxQueries
TickMs == CACHE_TTL_MS

\* ------------------------------------------------------------- JS helpers
Range(s) == {s[i] : i \in 1..Len(s)}

\* Array.prototype.slice(0, n)
Take(s, n) == SubSeq(s, 1, IF n < Len(s) THEN n ELSE Len(s))

\* Array.prototype.join('|')
RECURSIVE Join(_)
Join(parts) ==
    IF Len(parts) = 0 THEN ""
    ELSE IF Len(parts) = 1 THEN parts[1]
    ELSE parts[1] \o "|" \o Join(Tail(parts))

\* String.prototype.trim / toLowerCase on the questions asked here
Trim(q) == CASE q = " Q " -> "Q" [] q = "  " -> "" [] OTHER -> q
ToLowerCase(q) == CASE q = "Q" -> "q" [] OTHER -> q

\* a score in hundredths as the text JS prints for it (0.3, 0.25)
ScoreText(h) ==
    IF h % 10 = 0 THEN "0." \o ToString(h \div 10)
    ELSE IF h < 10 THEN "0.0" \o ToString(h)
    ELSE "0." \o ToString(h)

\* --------------------------------------------------------- the answer cache
\* the context of no chunk: the empty string
NoContext == [parts |-> <<>>, length |-> 0]

NoRecord ==
    [kind |-> "none", answer |-> "", sources |-> <<>>, cacheHit |-> FALSE,
     context |-> NoContext, chunksUsed |-> 0]

getCacheKey(parts) == Join(parts)

CacheKeys(cache) == {cache[i].key : i \in 1..Len(cache)}

\* the position of a key in the Map, 0 when it is not there
CacheIndex(cache, key) ==
    IF \E i \in 1..Len(cache) : cache[i].key = key
    THEN CHOOSE i \in 1..Len(cache) : cache[i].key = key
    ELSE 0

\* Map.prototype.set: a key already there keeps its insertion position
MapSet(cache, key, entry) ==
    LET i == CacheIndex(cache, key) IN
    IF i = 0 THEN Append(cache, entry) ELSE [cache EXCEPT ![i] = entry]

\* Map.prototype.delete
MapDelete(cache, key) == SelectSeq(cache, LAMBDA e : e.key # key)

\* (mutant of Expired: entries live for twice the TTL)
ExpiredLate(entry, t) == t - entry.timestamp > 2 * CACHE_TTL_MS

\* getCachedAnswer line 23
Expired(entry, t) == t - entry.timestamp > CACHE_TTL_MS

\* getCachedAnswer at time t: the value returned (NoRecord for null) and the Map
getCachedAnswer(cache, key, t) ==
    LET i == CacheIndex(cache, key) IN
    IF i = 0 THEN [value |-> NoRecord, cache |-> cache]
    ELSE IF Expired(cache[i], t)
         THEN [value |-> NoRecord, cache |-> MapDelete(cache, key)]
         ELSE [value |-> cache[i].value, cache |-> cache]

\* (mutant of FirstKey: the newest key)
LastKey(cache) == cache[Len(cache)].key

\* setCachedAnswer line 37: answerCache.keys().next().value
FirstKey(cache) == cache[1].key

\* setCachedAnswer at time t
setCachedAnswer(cache, key, value, t) ==
    LET set == MapSet(cache, key, [key |-> key, value |-> value, timestamp |-> t]) IN
    IF Len(set) > MAX_CACHE_SIZE THEN MapDelete(set, FirstKey(set)) ELSE set

\* ---------------------------------------------- the services the pipeline calls
\* ranked lists without repetition over a set of chunks
RankedLists(S) ==
    UNION {{s \in [1..n -> S] : \A i, j \in 1..n : i # j => s[i] # s[j]} :
           n \in 0..MaxResults}

\* bm25Service.searchBM25(question, limit, userId): the user's corpus, every
\* user's when no userId is passed
BM25Scope(userId) ==
    {id \in DOMAIN Corpus : userId = Undefined \/ Corpus[id].userId = userId}

\* qdrantService.searchSimilarChunks(vector, k, filter): the filter is applied
\* by the store
QdrantScope(filter) ==
    {id \in DOMAIN Corpus : Corpus[id][filter.key] = filter.value}

\* ... and the results come by descending cosine similarity
VectorLists(S) ==
    {s \in RankedLists(S) :
        \A i, j \in 1..Len(s) : i < j => Corpus[s[i]].score >= Corpus[s[j]].score}

RankOf(list, id) ==
    IF id \in Range(list) THEN CHOOSE i \in 1..Len(list) : list[i] = id ELSE 0

RECURSIVE Pow(_, _)
Pow(b, n) == IF n = 0 THEN 1 ELSE b * Pow(b, n - 1)

RECURSIVE RrfDenominator(_, _)
RrfDenominator(K, n) == IF n = 0 THEN 1 ELSE (K + n) * RrfDenominator(K, n - 1)

\* stable sort by descending score
RECURSIVE StableSortDesc(_, _)
StableSortDesc(s, score) ==
    IF Len(s) <= 1 THEN s
    ELSE LET rest == StableSortDesc(Tail(s), score)
             k == Cardinality({i \in 1..Len(rest) : score[rest[i]] > score[s[1]]})
         IN SubSeq(rest, 1, k) \o <<s[1]>> \o SubSeq(rest, k + 1, Len(rest))

\* rrfService.hybridSearch: rrfScore(c) = 1/(K + r_b) + 1/(K + r_v), here
\* multiplied by the common denominator; by descending rrfScore
hybridSearch(bm25Results, vectorResults, K) ==
    LET ids == bm25Results \o SelectSeq(vectorResults, LAMBDA id : id \notin Range(bm25Results))
        D == RrfDenominator(K, MaxResults)
        part(list, id) == IF RankOf(list, id) = 0 THEN 0 ELSE D \div (K + RankOf(list, id))
        rrfScore == [id \in Range(ids) |-> part(bm25Results, id) + part(vectorResults, id)]
    IN [ids |-> StableSortDesc(ids, rrfScore), rrfScore |-> rrfScore]

\* rrfService.applyDiversityPenalty: rrfScore * 0.9^(earlier results of the
\* same file), stable re-sort
applyDiversityPenalty(fused) ==
    LET ids == fused.ids
        N == Len(ids)
        prior(i) == Cardinality({j \in 1..(i - 1) : Corpus[ids[j]].fileId = Corpus[ids[i]].fileId})
        adjusted == [id \in Range(ids) |->
                        fused.rrfScore[id] * Pow(9, prior(RankOf(ids, id)))
                                           * Pow(10, N - prior(RankOf(ids, id)))]
    IN StableSortDesc(ids, adjusted)

\* ------------------------------------------------------------ the pipeline
NoLookup == [found |-> FALSE, age |-> 0, returned |-> FALSE, removed |-> FALSE]

NoOptions ==
    [searchMode |-> "none", topK |-> 0, minScore |-> 0, maxContextLength |-> 0,
     fileContext |-> Undefined]

NoCall ==
    [pc |-> "idle", fn |-> "none", question |-> "", userId |-> Undefined,
     fileId |-> Undefined, options |-> NoOptions, key |-> "",
     bm25Results |-> <<>>, finalResults |-> <<>>, retrievals |-> {},
     lookup |-> NoLookup, stored |-> FALSE, result |-> NoRecord,
     startedAfter |-> {}, endedAfter |-> {}, startNow |-> 0, endNow |-> 0]

\* the calls that have returned or thrown
Done == {c \in Calls : calls[c].pc = "done"}

\* what getCachedAnswer found for the key: was there an entry, its age, was a
\* value returned, was the entry removed
Lookup(cache, key, t) ==
    LET i == CacheIndex(cache, key)
        got == getCachedAnswer(cache, key, t)
    IN [found |-> i # 0,
        age |-> IF i = 0 THEN 0 ELSE t - cache[i].timestamp,
        returned |-> got.value # NoRecord,
        removed |-> i # 0 /\ key \notin CacheKeys(got.cache)]

\* answerQuestion line 60
ValidRagQuestion(question) == Len(Trim(question)) # 0

\* { ...DEFAULT_CONFIG, ...options }
Config(options) ==
    [DEFAULT_CONFIG EXCEPT !.searchMode = options.searchMode,
                           !.topK = options.topK,
                           !.minScore = options.minScore,
                           !.maxContextLength = options.maxContextLength]

\* (mutant of AnswerCacheKey: the key without the user)
AnswerCacheKeyNoUser(question, userId, config) ==
    getCacheKey(<<"rag", config.searchMode, ToString(config.topK),
                  ScoreText(config.minScore), ToLowerCase(Trim(question))>>)

\* answerQuestion lines 65-72
AnswerCacheKey(question, userId, config) ==
    getCacheKey(<<"rag",
                  IF userId = Undefined THEN "anonymous" ELSE userId,
                  config.searchMode,
                  ToString(config.topK),
                  ScoreText(config.minScore),
                  ToLowerCase(Trim(question))>>)

\* answerQuestionForFile lines 296-302
FileCacheKey(question, fileId, config) ==
    getCacheKey(<<"rag-file", fileId, ToString(config.topK),
                  ScoreText(config.minScore), ToLowerCase(Trim(question))>>)

\* (mutant of FromCache: the cached record as it is)
FromCacheUnmarked(cached) == cached

\* lines 75-83: { ...cached, metadata: { ...cached.metadata, cacheHit: true } }
FromCache(cached) == [cached EXCEPT !.cacheHit = TRUE]

\* (mutant of NoFilesAnswer: the no_files return of lines 86-97 left out, so
\* that the call ends with the record of lines 188-198)
NoFilesAnswerSkipped ==
    [NoRecord EXCEPT !.kind = "no_results", !.answer = "no_results"]

\* the canned records of lines 88-96, 190-197 and 333-337
NoFilesAnswer == [NoRecord EXCEPT !.kind = "no_files", !.answer = "no_files"]
NoResultsAnswer == [NoRecord EXCEPT !.kind = "no_results", !.answer = "no_results"]
Thrown == [NoRecord EXCEPT !.kind = "threw"]

\* `[Source ${i + 1}: ${chunk.fileName}]\n${chunk.text}\n\n`.length (line 272),
\* i counted from 1
FormattedLength(i, id) ==
    8 + Len(ToString(i)) + 2 + Len(Corpus[id].fileName) + 2 + Corpus[id].text + 2

\* (mutant of ContextLoop: a chunk that does not fit is skipped and the loop
\* goes on, continue for break)
RECURSIVE ContextLoopContinue(_, _, _, _)
ContextLoopContinue(chunks, maxLength, i, acc) ==
    IF i > Len(chunks) THEN acc
    ELSE IF acc.length + FormattedLength(i, chunks[i]) > maxLength
    THEN ContextLoopContinue(chunks, maxLength, i + 1, acc)
    ELSE ContextLoopContinue(chunks, maxLength, i + 1,
             [parts |-> Append(acc.parts, [label |-> i, chunk |-> chunks[i]]),
              length |-> acc.length + FormattedLength(i, chunks[i])])

\* (mutant of ContextLoop: the test of line 275 with >= for >)
RECURSIVE ContextLoopStrict(_, _, _, _)
ContextLoopStrict(chunks, maxLength, i, acc) ==
    IF i > Len(chunks) THEN acc
    ELSE IF acc.length + FormattedLength(i, chunks[i]) >= maxLength THEN acc
    ELSE ContextLoopStrict(chunks, maxLength, i + 1,
             [parts |-> Append(acc.parts, [label |-> i, chunk |-> chunks[i]]),
              length |-> acc.length + FormattedLength(i, chunks[i])])

\* the loop of lines 270-281 from its i-th round on: acc holds the chunks
\* appended to context so far (each under its Source label) and currentLength
RECURSIVE ContextLoop(_, _, _, _)
ContextLoop(chunks, maxLength, i, acc) ==
    IF i > Len(chunks) THEN acc
    ELSE IF acc.length + FormattedLength(i, chunks[i]) > maxLength THEN acc
    ELSE ContextLoop(chunks, maxLength, i + 1,
             [parts |-> Append(acc.parts, [label |-> i, chunk |-> chunks[i]]),
              length |-> acc.length + FormattedLength(i, chunks[i])])

\* prepareContext(chunks, maxLength), lines 266-284: the loop, then trim(),
\* which takes the two line feeds off the end of a context that is not empty
prepareContext(chunks, maxLength) ==
    LET context == ContextLoop(chunks, maxLength, 1, NoContext)
    IN [parts |-> context.parts,
        length |-> IF context.length = 0 THEN 0 ELSE context.length - 2]

\* the record of lines 230-252 / 343-356: chunksUsed is finalResults.length
\* (line 215, 243); answerQuestionForFile's record carries of the context its
\* length only and no chunksUsed, the model keeps one shape for both
AnswerRecord(answer, finalResults, context) ==
    [kind |-> "record", answer |-> answer, sources |-> finalResults,
     cacheHit |-> FALSE, context |-> context, chunksUsed |-> Len(finalResults)]

\* the call returns (or throws) a result
Return(call, result) ==
    [call EXCEPT !.pc = "done", !.result = result,
                 !.bm25Results = <<>>, !.finalResults = <<>>,
                 !.endedAfter = Done, !.endNow = now]

\* (mutant of AfterRetrieval: an empty result goes on to the LLM as well)
AfterRetrievalAlways(call, finalResults) ==
    [call EXCEPT !.pc = "llm", !.finalResults = finalResults]

\* lines 188-198 / 332-338: no chunk, the canned record; else on to the LLM
AfterRetrieval(call, finalResults) ==
    IF Len(finalResults) = 0
    THEN Return(call, NoResultsAnswer)
    ELSE [call EXCEPT !.pc = "llm", !.finalResults = finalResults]

\* answerQuestion(question, userId, options) up to its first await
AnswerQuestion(c, question, userId, options) ==
    /\ calls[c].pc = "idle"
    /\ \A d \in Calls : d < c => calls[d].pc # "idle"
    /\ LET config == Config(options)
           cacheKey == AnswerCacheKey(question, userId, config)
           cached == getCachedAnswer(answerCache, cacheKey, now)
           call == [NoCall EXCEPT !.fn = "answerQuestion", !.question = question,
                                  !.userId = userId, !.options = options,
                                  !.startedAfter = Done, !.startNow = now]
           looked == [call EXCEPT !.key = cacheKey,
                                  !.lookup = Lookup(answerCache, cacheKey, now)]
       IN IF ~ValidRagQuestion(question)
          THEN /\ calls' = [calls EXCEPT ![c] = Return(call, Thrown)]
               /\ UNCHANGED answerCache
          ELSE /\ answerCache' = cached.cache
               /\ calls' = [calls EXCEPT ![c] =
                     IF cached.value # NoRecord
                     THEN Return(looked, FromCache(cached.value))
                     ELSE IF options.fileContext = "empty"
                     THEN Return(looked, NoFilesAnswer)
                     ELSE IF config.searchMode \in {"hybrid", "bm25"}
                     THEN [looked EXCEPT !.pc = "bm25"]
                     ELSE IF config.searchMode = "vector"
                     THEN [looked EXCEPT !.pc = "embed"]
                     ELSE Return(looked, NoResultsAnswer)]
    /\ UNCHANGED <<now, queueVars, ctlVars, connVars, embedVars>>

\* answerQuestionForFile(question, fileId, options) up to its first await
AnswerQuestionForFile(c, question, fileId, options) ==
    /\ calls[c].pc = "idle"
    /\ \A d \in Calls : d < c => calls[d].pc # "idle"
    /\ LET config == Config(options)
           cacheKey == FileCacheKey(question, fileId, config)
           cached == getCachedAnswer(answerCache, cacheKey, now)
           call == [NoCall EXCEPT !.fn = "answerQuestionForFile",
                                  !.question = question, !.fileId = fileId,
                                  !.options = options, !.key = cacheKey,
                                  !.lookup = Lookup(answerCache, cacheKey, now),
                                  !.startedAfter = Done, !.startNow = now]
       IN /\ answerCache' = cached.cache
          /\ calls' = [calls EXCEPT ![c] =
                IF cached.value # NoRecord
                THEN Return(call, FromCache(cached.value))
                ELSE [call EXCEPT !.pc = "embed"]]
    /\ UNCHANGED <<now, queueVars, ctlVars, connVars, embedVars>>

\* bm25Service.searchBM25 resolves with res or rejects: lines 109-113 (hybrid:
\* limit 2 * topK, userId passed) and line 185 (bm25: limit topK, no userId)
SearchBM25(c, ok, res) ==
    /\ calls[c].pc = "bm25"
    /\ LET call == calls[c]
           config == Config(call.options)
           hybrid == config.searchMode = "hybrid"
           userId == IF hybrid THEN call.userId ELSE Undefined
           limit == IF hybrid THEN config.topK * 2 ELSE config.topK
           issued == [call EXCEPT !.retrievals =
                        @ \cup {[service |-> "bm25", key |-> "userId", value |-> userId]}]
       IN /\ res \in RankedLists(BM25Scope(userId))
          /\ Len(res) <= limit
          /\ ok \/ res = <<>>
          /\ calls' = [calls EXCEPT ![c] =
                IF ~ok THEN Return(issued, Thrown)
                ELSE IF hybrid THEN [issued EXCEPT !.pc = "embed", !.bm25Results = res]
                ELSE AfterRetrieval(issued, res)]
    /\ UNCHANGED <<answerCache, now, queueVars, ctlVars, connVars, embedVars>>

\* generateEmbedding(question) resolves with a vector or null, or rejects
\* (lines 118-122, 153-157, 316-320)
GenerateEmbedding(c, outcome) ==
    /\ calls[c].pc = "embed"
    /\ calls' = [calls EXCEPT ![c] =
          IF outcome = "vector" THEN [@ EXCEPT !.pc = "vector"]
          ELSE Return(@, Thrown)]
    /\ UNCHANGED <<answerCache, now, queueVars, ctlVars, connVars, embedVars>>

\* the filter passed to qdrantService.searchSimilarChunks: lines 127-131,
\* 163-167, 322-324
VectorFilter(call) ==
    IF call.fn = "answerQuestionForFile"
    THEN [key |-> "fileId", value |-> call.fileId]
    ELSE [key |-> "userId", value |-> call.userId]

\* qdrantService.searchSimilarChunks resolves with res or rejects, and the
\* code up to the next await: lines 124-148, 160-181, 326-338
SearchSimilarChunksReturns(c, ok, res) ==
    /\ calls[c].pc = "vector"
    /\ LET call == calls[c]
           config == Config(call.options)
           file == call.fn = "answerQuestionForFile"
           hybrid == ~file /\ config.searchMode = "hybrid"
           filter == VectorFilter(call)
           limit == IF hybrid THEN config.topK * 2 ELSE config.topK
           issued == [call EXCEPT !.retrievals =
                        @ \cup {[service |-> "vector", key |-> filter.key,
                                 value |-> filter.value]}]
           finalResults ==
               IF file THEN res
               ELSE IF hybrid
               THEN Take(applyDiversityPenalty(
                             hybridSearch(call.bm25Results, res, config.rrfK)),
                         config.topK)
               ELSE SelectSeq(res, LAMBDA id : Corpus[id].score >= config.minScore)
       IN /\ Len(res) <= limit
          /\ ok \/ res = <<>>
          /\ calls' = [calls EXCEPT ![c] =
                IF ~ok THEN Return(issued, Thrown)
                ELSE AfterRetrieval(issued, finalResults)]
    /\ UNCHANGED <<answerCache, now, queueVars, ctlVars, connVars, embedVars>>

\* the vector store applying the filter of the request
SearchSimilarChunks(c, ok, res) ==
    /\ calls[c].pc = "vector"
    /\ res \in VectorLists(QdrantScope(VectorFilter(calls[c])))
    /\ SearchSimilarChunksReturns(c, ok, res)

\* a vector store that answers without applying the filter
SearchSimilarChunksUnfiltered(c, ok, res) ==
    /\ calls[c].pc = "vector"
    /\ res \in VectorLists(DOMAIN Corpus)
    /\ SearchSimilarChunksReturns(c, ok, res)

\* prepareContext (lines 208, 340), llmService.generateAnswer resolves with an
\* answer or rejects, then setCachedAnswer and return: lines 221-255, 341-358
GenerateAnswer(c, ok, answer) ==
    /\ calls[c].pc = "llm"
    /\ LET call == calls[c]
           config == Config(call.options)
           context == prepareContext(call.finalResults, config.maxContextLength)
           result == AnswerRecord(answer, call.finalResults, context)
       IN IF ok
          THEN /\ answerCache' = setCachedAnswer(answerCache, call.key, result, now)
               /\ calls' = [calls EXCEPT ![c] =
                               Return([call EXCEPT !.stored = TRUE], result)]
          ELSE /\ calls' = [calls EXCEPT ![c] = Return(call, Thrown)]
               /\ UNCHANGED answerCache
    /\ UNCHANGED <<now, queueVars, ctlVars, connVars, embedVars>>

\* time passes
Tick ==
    /\ now < MaxTicks * TickMs
    /\ now' = now + TickMs
    /\ UNCHANGED <<answerCache, calls, queueVars, ctlVars, connVars, embedVars>>

\* the Map of a process with no query answered yet / after n answered queries
\* (of other questions, at time 0)
FillerRecord ==
    AnswerRecord("a1", <<"c1">>,
                 prepareContext(<<"c1">>, DEFAULT_CONFIG.maxContextLength))
Prefilled(n) ==
    [i \in 1..n |->
        [key |-> AnswerCacheKey("filler" \o ToString(i), "u1", DEFAULT_CONFIG),
         value |-> FillerRecord, timestamp |-> 0]]
\* ------------------------------------------------------ embeddingService
REQUEST_TIMEOUT == 30000
MAX_RETRIES == 2
HEALTH_CHECK_INTERVAL == 60000
\* the delay before a retry, line 91
RetryDelayMs == 1000

\* the generateEmbedding calls, which may run at the same time
EmbedIds == 1..MaxEmbeds

\* what a caller may pass as text: a text and a blank string
TextInputs == {"q", "  "}

\* how a POST /embed ends: a vector of EMBEDDING_DIM numbers, a body without
\* such a vector, a status that is not ok, a network error, or the abort of
\* the request after REQUEST_TIMEOUT
PostOutcomes == {"embedding", "malformed", "not_ok", "network", "timeout"}

\* Date.now(): the process starts, at now = 0, later than one
\* HEALTH_CHECK_INTERVAL after the epoch
DateNow == HEALTH_CHECK_INTERVAL + now

\* no call made: sentAt holds the times of the POSTs of the call, probedAt
\* those of its GET /health requests, checkedAt the `now` of the
\* checkServiceHealth under way, delayFrom the start of the wait of line 91;
\* timeouts and delays count the aborted requests and the waits; sawUnhealthy
\* and postsThen record that a health check found the cached flag false, and
\* the POSTs sent up to then
NoEmbed ==
    [pc |-> "idle", text |-> "", retries |-> 0, sentAt |-> <<>>, timeouts |-> 0,
     delays |-> 0, probedAt |-> <<>>, checkedAt |-> 0, delayFrom |-> 0,
     sawUnhealthy |-> FALSE, postsThen |-> 0, result |-> "none"]

\* the call returns or throws
EmbedReturn(e, result) == [e EXCEPT !.pc = "done", !.result = result]

\* lines 52-54: the text is checked, then checkServiceHealth is called
EmbedEnter(e) ==
    IF Len(Trim(e.text)) = 0 THEN EmbedReturn(e, "null")
    ELSE [e EXCEPT !.pc = "health"]

\* lines 58-71 after checkServiceHealth has returned healthy: unavailable, or
\* the POST /embed is sent and its timer set
EmbedAfterHealth(e, healthy) ==
    IF healthy THEN [e EXCEPT !.pc = "post", !.sentAt = Append(@, now)]
    ELSE EmbedReturn(e, "threw_unavailable")

\* generateEmbedding(text) is called, retries = MAX_RETRIES, up to line 57
GenerateEmbeddingCall(c, text) ==
    /\ embed[c].pc = "idle"
    /\ \A d \in EmbedIds : d < c => embed[d].pc # "idle"
    /\ embed' = [embed EXCEPT ![c] =
          EmbedEnter([NoEmbed EXCEPT !.text = text, !.retries = MAX_RETRIES])]
    /\ UNCHANGED <<serviceHealthy, lastHealthCheck, batch, answerCache, now,
                   calls, queueVars, ctlVars, connVars>>

\* checkServiceHealth() of line 57 up to its await: within the interval the
\* cached flag is returned (lines 19-24), else GET /health is sent (line 28)
EmbedHealth(c) ==
    /\ embed[c].pc = "health"
    /\ embed' = [embed EXCEPT ![c] =
          IF DateNow - lastHealthCheck < HEALTH_CHECK_INTERVAL
          THEN EmbedAfterHealth(
                   [@ EXCEPT !.sawUnhealthy = @ \/ ~serviceHealthy,
                             !.postsThen = IF serviceHealthy THEN @
                                           ELSE Len(embed[c].sentAt)],
                   serviceHealthy)
          ELSE [@ EXCEPT !.pc = "probe", !.checkedAt = DateNow,
                         !.probedAt = Append(@, now)]]
    /\ UNCHANGED <<serviceHealthy, lastHealthCheck, batch, answerCache, now,
                   calls, queueVars, ctlVars, connVars>>

\* GET /health answers ok or not, or fails: lines 32-40, then lines 58-71
EmbedProbe(c, ok) ==
    /\ embed[c].pc = "probe"
    /\ serviceHealthy' = ok
    /\ lastHealthCheck' = embed[c].checkedAt
    /\ embed' = [embed EXCEPT ![c] = EmbedAfterHealth(@, ok)]
    /\ UNCHANGED <<batch, answerCache, now, calls, queueVars, ctlVars, connVars>>

\* (mutant of RetryAllowed: line 89 with retries > 1, one retry of the two)
RetryAllowedOnce(retries) == retries > 1

\* line 89
RetryAllowed(retries) == retries > 0

\* the time at which the timer of line 64 aborts the request under way
PostDeadline(e) == e.sentAt[Len(e.sentAt)] + REQUEST_TIMEOUT

\* POST /embed ends, before the timer or by it: lines 73-85, and the catch of
\* lines 86-97 up to the wait of line 91
EmbedPost(c, outcome) ==
    /\ embed[c].pc = "post"
    /\ IF outcome = "timeout" THEN now = PostDeadline(embed[c])
       ELSE now < PostDeadline(embed[c])
    /\ LET aborted == [embed[c] EXCEPT !.timeouts = @ + 1]
       IN embed' = [embed EXCEPT ![c] =
             CASE outcome = "embedding" -> EmbedReturn(@, "embedding")
               [] outcome = "malformed" -> EmbedReturn(@, "null")
               [] outcome \in {"not_ok", "network"} -> EmbedReturn(@, "threw_error")
               [] outcome = "timeout" ->
                     IF RetryAllowed(embed[c].retries)
                     THEN [aborted EXCEPT !.pc = "delay", !.delayFrom = now]
                     ELSE EmbedReturn(aborted, "threw_timeout")]
    /\ UNCHANGED <<serviceHealthy, lastHealthCheck, batch, answerCache, now,
                   calls, queueVars, ctlVars, connVars>>

\* lines 91-92: the wait is over, generateEmbedding(text, retries - 1) is
\* called and runs up to line 57
EmbedRetry(c) ==
    /\ embed[c].pc = "delay"
    /\ now = embed[c].delayFrom + RetryDelayMs
    /\ embed' = [embed EXCEPT ![c] =
          EmbedEnter([@ EXCEPT !.retries = @ - 1, !.delays = @ + 1])]
    /\ UNCHANGED <<serviceHealthy, lastHealthCheck, batch, answerCache, now,
                   calls, queueVars, ctlVars, connVars>>

\* the times at which a timer of a call under way fires
EmbedDeadlines ==
    {PostDeadline(embed[c]) : c \in {d \in EmbedIds : embed[d].pc = "post"}}
    \cup {embed[c].delayFrom + RetryDelayMs :
            c \in {d \in EmbedIds : embed[d].pc = "delay"}}

\* the times the clock is looked at next: a timer fires, or one
\* HEALTH_CHECK_INTERVAL has passed
EmbedTimes == EmbedDeadlines \cup {now + HEALTH_CHECK_INTERVAL}

\* time passes, at most up to the next timer
EmbedAdvance(t) ==
    /\ t > now
    /\ t <= MaxEmbedTime
    /\ \A d \in EmbedDeadlines : t <= d
    /\ now' = t
    /\ UNCHANGED <<embedVars, answerCache, calls, queueVars, ctlVars, connVars>>

\* ------------------------------------------- generateBatchEmbeddings
BATCH_SIZE == 12

\* null in the list of results; a vector is written as the position of the
\* text it was computed for, counted from 1
NoVector == 0

\* the lists of texts a caller may pass: of n texts, those at the positions
\* in blank being blank strings
TextList(n, blank) == [k \in 1..n |-> IF k \in blank THEN "  " ELSE "q"]
TextLists ==
    {TextList(n, blank) : n \in BatchLengths, blank \in {{}, {1}, {13}}}

\* how a POST /embed/batch ends: with an array of vectors for all texts of the
\* batch, for none of them, for all but the last (a shorter array) or for all
\* but the first (a vector of another size); with a body that has no
\* embeddings array; with a status that is not ok, a network error, or the
\* abort of the request
BatchOutcomes ==
    {"all", "none", "short", "first_bad", "no_array", "not_ok", "network", "timeout"}

\* the outcomes that end in the catch of lines 143-146
BatchThrows == {"no_array", "not_ok", "network", "timeout"}

\* the places j (from 0) of a batch of m texts at which embeddings[j] is an
\* array of EMBEDDING_DIM numbers (line 137)
ValidAt(outcome, m) ==
    CASE outcome = "all" -> 0..(m - 1)
      [] outcome = "short" -> 0..(m - 2)
      [] outcome = "first_bad" -> 1..(m - 1)
      [] OTHER -> {}

NoBatch ==
    [pc |-> "idle", texts |-> <<>>, i |-> 0, results |-> <<>>, requests |-> 0,
     responses |-> <<>>]

\* texts.slice(i, i + BATCH_SIZE).length
BatchLength(texts, i) ==
    IF i + BATCH_SIZE < Len(texts) THEN BATCH_SIZE ELSE Len(texts) - i

\* the head of the loop of line 109 at offset i: the next request is sent, or
\* the results are returned
BatchLoop(b, i) ==
    IF i < Len(b.texts)
    THEN [b EXCEPT !.pc = "post", !.i = i, !.requests = @ + 1]
    ELSE [b EXCEPT !.pc = "done", !.i = i]

\* generateBatchEmbeddings(texts) up to its first await or its return
GenerateBatchEmbeddings(texts) ==
    /\ batch.pc = "idle"
    /\ batch' = BatchLoop([NoBatch EXCEPT !.texts = texts], 0)
    /\ UNCHANGED <<serviceHealthy, lastHealthCheck, embed, answerCache, now,
                   calls, queueVars, ctlVars, connVars>>

\* (mutant of BatchFailed: the catch pushes BATCH_SIZE nulls)
BatchFailedFull(results, m) == results \o [j \in 1..BATCH_SIZE |-> NoVector]

\* line 145: results.push(...new Array(batch.length).fill(null))
BatchFailed(results, m) == results \o [j \in 1..m |-> NoVector]

\* lines 135-142: a vector or null for each text of the batch at offset i
BatchPushed(results, i, m, valid) ==
    results \o [j \in 1..m |-> IF (j - 1) \in valid THEN i + j ELSE NoVector]

\* POST /embed/batch ends: lines 127-146, and the loop up to the next await
BatchPost(outcome) ==
    /\ batch.pc = "post"
    /\ LET m == BatchLength(batch.texts, batch.i)
           valid == ValidAt(outcome, m)
           results == IF outcome \in BatchThrows
                      THEN BatchFailed(batch.results, m)
                      ELSE BatchPushed(batch.results, batch.i, m, valid)
           answered == [batch EXCEPT !.results = results,
                           !.responses = Append(@, [failed |-> outcome \in BatchThrows,
                                                    valid |-> {batch.i + j + 1 : j \in valid}])]
       IN batch' = BatchLoop(answered, batch.i + BATCH_SIZE)
    /\ UNCHANGED <<serviceHealthy, lastHealthCheck, embed, answerCache, now,
                   calls, queueVars, ctlVars, connVars>>

EmbedInit ==
    /\ serviceHealthy = TRUE
    /\ lastHealthCheck = 0
    /\ embed = [c \in EmbedIds |-> NoEmbed]
    /\ batch = NoBatch

RagInit(cache) ==
    /\ answerCache = cache
    /\ now = 0
    /\ calls = [c \in Calls |-> NoCall]
    /\ EmbedInit

\* ------------------------------------------------------------------ Spec
vars == <<queueVars, ragVars, ctlVars, connVars>>

\* no signal received, nothing answered
CtlInit ==
    /\ isShuttingDown = [w \in Workers |-> FALSE]
    /\ spc = [w \in Workers |-> "none"]
    /\ exited = [w \in Workers |-> "alive"]
    /\ accepted = {}
    /\ stats = NoStats
    /\ redis = [p \in Procs |-> IF p = API THEN NoClient ELSE ReadyClient]
    /\ reachable = TRUE

Init == QueueInit /\ RagInit(<<>>) /\ CtlInit

\* availability events of a process's Redis client
EventStep(P) ==
    \/ \E p \in P, ok \in BOOLEAN : Ping(p, ok)
    \/ \E p \in P : RedisErrorEvent(p)
    \/ \E p \in P : RedisConnectEvent(p)

\* workerLoop of the workers W
WorkerStep(W) ==
    \/ \E w \in W : WClaim(w)
    \/ \E w \in W, ok \in BOOLEAN : WZPopMax(w, ok)
    \/ \E w \in W, ok \in BOOLEAN : WHGet(w, ok)
    \/ \E w \in W, ok \in BOOLEAN : WHSetRunning(w, ok)
    \/ \E w \in W, ok \in BOOLEAN : WHSetStatus(w, ok)
    \/ \E w \in W, ok \in BOOLEAN : WHSetStarted(w, ok)
    \/ \E w \in W, ok \in BOOLEAN : WHSetWorker(w, ok)
    \/ \E w \in W, ok \in BOOLEAN : WProgress(w, ok)
    \/ \E w \in W, returns \in BOOLEAN : WPipeline(w, returns)
    \/ \E w \in W, ok \in BOOLEAN : WCompleteHSet(w, ok)
    \/ \E w \in W, ok \in BOOLEAN : WCompleteHDel(w, ok)
    \/ \E w \in W, ok \in BOOLEAN : WFailHSet(w, ok)
    \/ \E w \in W, ok \in BOOLEAN : WFailHDel(w, ok)

\* the heartbeat timers of the workers W
HeartbeatStep(W) ==
    \/ \E w \in W : HbTick(w)
    \/ \E w \in W, ok \in BOOLEAN : HbHSetJob(w, ok)
    \/ \E w \in W, ok \in BOOLEAN : HbHSetRunning(w, ok)

\* enqueueRagJob
EnqueueStep ==
    \/ \E id \in JobIds : ApiEnqueue(id)
    \/ \E ok \in BOOLEAN : ApiHSet(ok)
    \/ \E ok \in BOOLEAN : ApiZAdd(ok)

\* Two workers and a producer calling enqueueRagJob, sharing Redis.
Next ==
    \/ EventStep(Procs)
    \/ WorkerStep(Workers)
    \/ \E pr \in PriorityInputs : EnqueueCall(pr)
    \/ EnqueueStep

Spec == Init /\ [][Next]_vars

\* One worker with its heartbeat timer, and a producer.
NextWorker ==
    \/ EventStep({"w1", API})
    \/ WorkerStep({"w1"})
    \/ HeartbeatStep({"w1"})
    \/ \E pr \in PriorityInputs : EnqueueCall(pr)
    \/ EnqueueStep

SpecWorker == Init /\ [][NextWorker]_vars

\* The HTTP surface of the API process: POST /ask, POST /ask-sync,
\* POST /ask-file/:fileId and GET /status/:jobId.
NextApi ==
    \/ EventStep({API})
    \/ \E q \in Questions : AskRequest(q)
    \/ \E q \in Questions : AskSyncRequest(q)
    \/ \E q \in Questions, u \in Users, f \in FileIdInputs : AskFileRequest(q, u, f)
    \/ \E ok \in BOOLEAN : ApiFindOne(ok)
    \/ EnqueueStep
    \/ \E returns \in BOOLEAN : ApiSync(returns)
    \/ \E returns \in BOOLEAN : ApiSyncFile(returns)
    \/ \E id \in JobIds : StatusRequest(id)
    \/ StatusStep

SpecApi == Init /\ [][NextApi]_vars

\* shutdown(signal) of the workers W
ShutdownStep(W) ==
    \/ \E w \in W : ShutdownSignal(w)
    \/ \E w \in W : ShutdownPoll(w)
    \/ \E w \in W : ShutdownTimeout(w)
    \/ \E w \in W : ShutdownDisconnect(w)
    \/ \E w \in W : WAfterQuit(w)
    \/ \E w \in W : ShutdownExit(w)

\* One worker that is sent a signal at any point of its loop, and a producer.
NextShutdown ==
    \/ EventStep({"w1", API})
    \/ WorkerStep({"w1"})
    \/ ShutdownStep({"w1"})
    \/ \E pr \in PriorityInputs : EnqueueCall(pr)
    \/ EnqueueStep

SpecShutdown == Init /\ [][NextShutdown]_vars

\* Two workers and a producer sharing Redis; a worker may be terminated.
NextCrash ==
    \/ Next
    \/ \E w \in Workers : Crash(w)

SpecCrash == Init /\ [][NextCrash]_vars

\* A producer outside this code base (the task queue this service shares its
\* Redis with) puts a job into queue:any: hash and queue entry.
ExternalEnqueueAny(id, priority) ==
    /\ Cardinality(uuids) < MaxJobs
    /\ id \notin uuids
    /\ id = Uuidv4
    /\ uuids' = uuids \cup {id}
    /\ jobs' = [jobs EXCEPT ![id] =
                  [@ EXCEPT !.payload = [task_type |-> "RAG_QUERY",
                                          priority |-> priority,
                                          userId |-> "u1", fileId |-> "null"],
                            !.status = "queued"]]
    /\ zsets' = [zsets EXCEPT !["queue:any"] =
                    @ \cup {[member |-> id, score |-> ZScore(priority)]}]
    /\ UNCHANGED <<running, redisAvailable, workerVars, apc, areq, ajob, lastResp,
                   histVars, ragVars, ctlVars, connVars>>

\* A queued job is cancelled or expires: its hash goes while its id is still
\* in a queue.
ExternalExpire(j) ==
    /\ jobs[j].status = "queued"
    /\ \E q \in QueueKeys : \E e \in zsets[q] : e.member = j
    /\ jobs' = [jobs EXCEPT ![j] = NoHash]
    /\ UNCHANGED <<zsets, running, redisAvailable, workerVars, apiVars, histVars,
                   ragVars, ctlVars, connVars>>

\* One worker of class rag, the API's producer for queue:rag, an outside
\* producer for queue:any, and jobs that expire while queued.
NextClaim ==
    \/ EventStep({"w1", API})
    \/ WorkerStep({"w1"})
    \/ \E pr \in PriorityInputs : EnqueueCall(pr)
    \/ EnqueueStep
    \/ \E id \in JobIds, pr \in PriorityInputs : ExternalEnqueueAny(id, pr)
    \/ \E j \in JobIds : ExternalExpire(j)

SpecClaim == Init /\ [][NextClaim]_vars

\* One worker with its heartbeat timer, a producer and a client polling
\* GET /status, while the connection comes and goes: all seven operations of
\* the queue service.
NextDown ==
    \/ EventStep({"w1", API})
    \/ WorkerStep({"w1"})
    \/ HeartbeatStep({"w1"})
    \/ \E pr \in PriorityInputs : EnqueueCall(pr)
    \/ EnqueueStep
    \/ \E id \in JobIds : StatusRequest(id)
    \/ StatusStep

SpecDown == Init /\ [][NextDown]_vars

\* One worker, producers of RAG jobs and of file jobs, and a caller of
\* getQueueStats.
NextQueues ==
    \/ EventStep({"w1", API})
    \/ WorkerStep({"w1"})
    \/ \E pr \in PriorityInputs : EnqueueCall(pr)
    \/ \E pr \in PriorityInputs, m \in MimetypeInputs : EnqueueFileCall(pr, m)
    \/ EnqueueStep
    \/ StatsCall
    \/ ApiStats
    \/ \E ok \in BOOLEAN : ApiZCard(ok)

SpecQueues == Init /\ [][NextQueues]_vars

\* External tooling collects a job after its terminal state (the core sets no
\* TTL on job hashes).  The id then stands for a uuid not drawn yet.
GarbageCollect(j) ==
    /\ jobs[j].status \in {"completed", "failed"}
    /\ \A w \in Workers : wjob[w] # j /\ hbjob[w] # j /\ heartbeatInterval[w] # j
    /\ jobs' = [jobs EXCEPT ![j] = NoHash]
    /\ running' = [w \in Workers |-> running[w] \ {j}]
    /\ uuids' = uuids \ {j}
    /\ accepted' = accepted \ {j}
    /\ claimLog' = [claimLog EXCEPT ![j] = 0]
    /\ writers' = [writers EXCEPT ![j] = {}]
    /\ UNCHANGED <<zsets, redisAvailable, workerVars, apc, areq, ajob, lastResp, errs>>
    /\ UNCHANGED <<ragVars, isShuttingDown, spc, exited, stats, connVars>>

\* Redis stays available: no command rejects and no connection error occurs.
InitLive ==
    QueueStart(MaxErrors) /\ RagInit(<<>>) /\ CtlInit

\* POST /ask under a steady load, one worker of class rag that keeps running
\* its loop, every pipeline call returning or throwing.
NextLive ==
    \/ \E ok \in BOOLEAN : Ping(API, ok)
    \/ WorkerStep({"w1"})
    \/ \E q \in Questions : AskRequest(q)
    \/ EnqueueStep
    \/ \E j \in JobIds : GarbageCollect(j)

SpecLive == InitLive /\ [][NextLive]_vars /\ WF_vars(WorkerStep({"w1"}))

\* the options a caller passes: searchMode, topK, minScore and the fileContext
\* (handleAskSync's list of file names: Undefined, "empty" or "some")
OptionsOf(modes, fileContexts) ==
    [searchMode : modes, topK : {DEFAULT_CONFIG.topK},
     minScore : {DEFAULT_CONFIG.minScore},
     maxContextLength : {DEFAULT_CONFIG.maxContextLength},
     fileContext : fileContexts]

\* the awaited services of the pipeline answering with lists out of R
PipelineStep(R) ==
    \/ \E c \in Calls, ok \in BOOLEAN, res \in R : SearchBM25(c, ok, res)
    \/ \E c \in Calls, outcome \in {"vector", "null", "throw"} : GenerateEmbedding(c, outcome)
    \/ \E c \in Calls, ok \in BOOLEAN, res \in R : SearchSimilarChunks(c, ok, res)
    \/ \E c \in Calls, ok \in BOOLEAN, answer \in Answers : GenerateAnswer(c, ok, answer)

\* what a caller may pass as options.searchMode: the three modes and a string
\* that is none of them
SearchModeInputs == SearchModes \cup {"semantic"}

\* what a caller may pass as question: a question and a blank string
QuestionInputs == {"q", "  "}

\* Queries of two users in every search mode and of single files.
NextRag ==
    \/ \E c \in Queries, q \in QuestionInputs, u \in Users,
          o \in OptionsOf(SearchModeInputs, {Undefined}) :
          AnswerQuestion(c, q, u, o)
    \/ \E c \in Queries, f \in Files, o \in OptionsOf({"hybrid"}, {Undefined}) :
          AnswerQuestionForFile(c, "q", f, o)
    \/ PipelineStep(RankedLists(DOMAIN Corpus))

SpecRag == Init /\ [][NextRag]_vars

\* One process's cache, one short of full, under queries over time.
InitCache == QueueInit /\ RagInit(Prefilled(MAX_CACHE_SIZE - 1)) /\ CtlInit

NextCache ==
    \/ \E c \in Queries, q \in {"q", "r"}, o \in OptionsOf({"hybrid"}, {Undefined}) :
          AnswerQuestion(c, q, "u1", o)
    \/ \E c \in Queries, o \in OptionsOf({"hybrid"}, {Undefined}) :
          AnswerQuestionForFile(c, "q", "f1", o)
    \/ PipelineStep({<<>>, <<"c1">>})
    \/ Tick

SpecCache == InitCache /\ [][NextCache]_vars

\* The same query asked again and again over time, by handleAskSync (with the
\* user's file list) or by the worker (without).
NextRepeat ==
    \/ \E c \in Calls, o \in OptionsOf({"hybrid"}, {Undefined, "empty"}) :
          AnswerQuestion(c, "q", "u1", o)
    \/ PipelineStep({<<>>, <<"c1">>})
    \/ Tick

SpecRepeat == Init /\ [][NextRepeat]_vars

\* handleAskSync's calls for a user without files, and the worker's calls for
\* the same user, over time.
NextNoFiles ==
    \/ \E c \in Queries, q \in QuestionInputs,
          o \in OptionsOf({"hybrid"}, {Undefined, "empty"}) :
          AnswerQuestion(c, q, "u1", o)
    \/ PipelineStep({<<>>, <<"c1">>})
    \/ Tick

SpecNoFiles == Init /\ [][NextNoFiles]_vars

\* what a caller may pass as options.maxContextLength: the default, the length
\* of the long chunk formatted, to the character, a length that the short
\* chunk fits alone, and one that any two chunks fit
MaxContextLengths == {DEFAULT_CONFIG.maxContextLength, 3020, 2000, 7000}

ContextOptions ==
    [searchMode : {"hybrid", "bm25"}, topK : {DEFAULT_CONFIG.topK},
     minScore : {DEFAULT_CONFIG.minScore},
     maxContextLength : MaxContextLengths, fileContext : {Undefined}]

\* Queries with every context limit, over the ranked lists of one user's chunks.
NextContext ==
    \/ \E c \in Queries, o \in ContextOptions : AnswerQuestion(c, "q", "u1", o)
    \/ \E c \in Queries, o \in ContextOptions : AnswerQuestionForFile(c, "q", "f1", o)
    \/ PipelineStep(RankedLists({"c1", "c2"}))

SpecContext == Init /\ [][NextContext]_vars

\* the options of a query that goes to the vector store
VectorOptions == OptionsOf({"hybrid", "vector"}, {Undefined})

\* Queries of one user and of that user's file against a vector store that
\* may return chunks outside the filter.
NextStore ==
    \/ \E c \in Queries, o \in VectorOptions : AnswerQuestion(c, "q", "u1", o)
    \/ \E c \in Queries, o \in VectorOptions : AnswerQuestionForFile(c, "q", "f1", o)
    \/ \E c \in Calls, ok \in BOOLEAN, res \in RankedLists(DOMAIN Corpus) :
          SearchBM25(c, ok, res)
    \/ \E c \in Calls, outcome \in {"vector", "null", "throw"} : GenerateEmbedding(c, outcome)
    \/ \E c \in Calls, ok \in BOOLEAN, res \in RankedLists(DOMAIN Corpus) :
          SearchSimilarChunksUnfiltered(c, ok, res)
    \/ \E c \in Calls, ok \in BOOLEAN, answer \in Answers : GenerateAnswer(c, ok, answer)

SpecStore == Init /\ [][NextStore]_vars

\* Calls of generateEmbedding, at the same time or one after the other.
NextEmbed ==
    \/ \E c \in EmbedIds, text \in TextInputs : GenerateEmbeddingCall(c, text)
    \/ \E c \in EmbedIds : EmbedHealth(c)
    \/ \E c \in EmbedIds, ok \in BOOLEAN : EmbedProbe(c, ok)
    \/ \E c \in EmbedIds, outcome \in PostOutcomes : EmbedPost(c, outcome)
    \/ \E c \in EmbedIds : EmbedRetry(c)
    \/ \E t \in EmbedTimes : EmbedAdvance(t)

SpecEmbed == Init /\ [][NextEmbed]_vars

\* One call of generateBatchEmbeddings with every list of texts.
NextBatch ==
    \/ \E texts \in TextLists : GenerateBatchEmbeddings(texts)
    \/ \E outcome \in BatchOutcomes : BatchPost(outcome)

SpecBatch == Init /\ [][NextBatch]_vars

\* ------------------------------------------------------- queue properties
\* the workers that hold job j inside claimJob, after its ZPOPMAX
ClaimingNow(j) ==
    {w \in Workers : wjob[w] = j /\ wpc[w] \in
        {"hget", "hset_running", "hset_status", "hset_started", "hset_worker"}}

\* C1 (worker exclusion): a job is handed out by claimJob at most once, over
\* all workers, counting the calls that have popped it and not returned yet.
C1_WorkerExclusion ==
    \A j \in JobIds : claimLog[j] + Cardinality(ClaimingNow(j)) <= 1

\* both workers have claimed, and each got a job of its own
C1_Witness ==
    /\ claimLog[1] = 1 /\ jobs[1].worker_id = "w1"
    /\ claimLog[2] = 1 /\ jobs[2].worker_id = "w2"

StatusChanges ==
    {<<Absent, "queued">>, <<"queued", "running">>,
     <<"running", "completed">>, <<"running", "failed">>}

\* C2 (status lifecycle): the status field of a job hash only changes
\* (none)->queued, queued->running, running->completed, running->failed.
C2_StatusLifecycle ==
    [][\A j \in JobIds :
         \/ jobs'[j].status = jobs[j].status
         \/ <<jobs[j].status, jobs'[j].status>> \in StatusChanges]_vars

\* C3 (priority ordering): a job popped from a queue has a priority at least
\* that of every job left in that queue.
C3_PriorityOrdering ==
    [][\A q \in QueueKeys : \A e \in zsets[q] \ zsets'[q] : \A f \in zsets'[q] :
         jobs[f.member].payload.priority <= jobs[e.member].payload.priority]_vars

\* C4: a job hash with status 'running' has a worker_id, and only that
\* worker has written progress, heartbeat, completion or failure to it.
C4_RunningHasOneWorker ==
    \A j \in JobIds : jobs[j].status = "running" =>
        /\ jobs[j].worker_id \in Workers
        /\ writers[j] \subseteq {jobs[j].worker_id}

\* C5: while a job stays 'running' its stored progress does not decrease.
C5_ProgressMonotone ==
    [][\A j \in JobIds :
         jobs[j].status = "running" /\ jobs'[j].status = "running"
            => ProgressOf(jobs'[j]) >= ProgressOf(jobs[j])]_vars

\* a running job has gone through both progress writes and a heartbeat
C5_Witness ==
    \E j \in JobIds :
        /\ jobs[j].status = "running"
        /\ jobs[j].progress = ProgressAtEnd
        /\ hbpc["w1"] = "hb_running"

\* C6 (graceful degradation): a POST /ask with a valid question whose enqueue
\* found Redis down is answered by handleAskSync: 200 when the pipeline
\* returned, handleAskSync's 500 when it threw; never by /ask's own error.
C6_GracefulDegradation ==
    /\ (apc = "sync" /\ areq.route = "ask") => ValidQuestion(areq.question)
    /\ (lastResp.route = "ask" /\ lastResp.degraded) =>
          /\ lastResp.handler = "handleAskSync"
          /\ lastResp.status \in {200, 500}

\* an /ask request that found Redis down was answered 200 by handleAskSync
C6_Witness ==
    /\ lastResp.route = "ask"
    /\ lastResp.degraded
    /\ lastResp.status = 200
    /\ redisAvailable[API] = "false"

\* ------------------------------------------------------- cache properties
\* the step in which call c stores its record (setCachedAnswer)
StoreStep(c) == calls[c].pc = "llm" /\ calls'[c].stored

\* the keys of the Map in insertion order
KeyOrder(cache) == [i \in 1..Len(cache) |-> cache[i].key]

\* C7 (cache bound): the answer cache never holds more than 200 entries, and
\* a call that stores a new key into a cache of 200 entries evicts exactly
\* the entry inserted first: that key no longer hits, the other 199 entries
\* and the new one are there, in order, and still hit with their values.
C7_CacheBound ==
    [][/\ Len(answerCache') <= MAX_CACHE_SIZE
       /\ \A c \in Calls :
            (/\ StoreStep(c)
             /\ calls[c].key \notin CacheKeys(answerCache)
             /\ Len(answerCache) = MAX_CACHE_SIZE)
            => /\ KeyOrder(answerCache') = Tail(KeyOrder(answerCache)) \o <<calls[c].key>>
               /\ getCachedAnswer(answerCache', answerCache[1].key, now').value = NoRecord
               /\ getCachedAnswer(answerCache', calls[c].key, now').value = calls'[c].result
               /\ \A i \in 2..MAX_CACHE_SIZE :
                     getCachedAnswer(answerCache', answerCache[i].key,
                                     answerCache[i].timestamp).value
                       = answerCache[i].value]_vars

\* a 201st key has been stored: the cache is full and its first entry is gone
C7_Witness ==
    /\ Len(answerCache) = MAX_CACHE_SIZE
    /\ Prefilled(1)[1].key \notin CacheKeys(answerCache)
    /\ Cardinality({c \in Done : calls[c].stored}) >= 2

\* C8 (cache expiry): a lookup returns a value only from an entry that is at
\* most 5 minutes old, and a lookup that finds an older entry returns none
\* and removes the entry.
C8_CacheExpiry ==
    \A c \in Calls :
        LET l == calls[c].lookup IN
        /\ l.returned => l.found /\ l.age <= CACHE_TTL_MS
        /\ calls[c].result.cacheHit => l.returned
        /\ (l.found /\ l.age > CACHE_TTL_MS) => ~l.returned /\ l.removed

\* a call has looked up a key whose entry was older than the TTL
C8_Witness ==
    \E c \in Calls :
        /\ calls[c].lookup.found
        /\ calls[c].lookup.age > CACHE_TTL_MS
        /\ calls[c].lookup.removed

\* call c returned a record or a canned record (it did not throw)
Successful(c) == calls[c].pc = "done" /\ calls[c].result.kind # "threw"

\* two calls with identical question, userId and options
SameQuery(a, b) ==
    /\ calls[a].fn = calls[b].fn
    /\ calls[a].question = calls[b].question
    /\ calls[a].userId = calls[b].userId
    /\ calls[a].options = calls[b].options

\* call b was made after call a had returned, within the TTL
MadeWithinTtlAfter(a, b) ==
    /\ a \in calls[b].startedAfter
    /\ calls[b].startNow - calls[a].endNow <= CACHE_TTL_MS

\* b returned a's answer and sources, marked as a cache hit
SameAnswer(a, b) ==
    /\ calls[b].result.answer = calls[a].result.answer
    /\ calls[b].result.sources = calls[a].result.sources
    /\ calls[b].result.cacheHit

\* another call stored a record under a's key after a returned and before b
\* was made
StoreBetween(a, b) ==
    \E d \in Calls \ {a, b} :
        /\ calls[d].stored
        /\ calls[d].key = calls[a].key
        /\ d \in calls[b].startedAfter
        /\ a \in calls[d].endedAfter

\* C9 (cache idempotence, as stated): of two successful identical calls, the
\* second made within the TTL after the first, the second returns the same
\* answer and sources as the first with cacheHit = true, whatever the first
\* call's retrieval returned.
C9_CacheIdempotence ==
    \A a, b \in Calls :
        (a # b /\ Successful(a) /\ Successful(b) /\ SameQuery(a, b)
           /\ MadeWithinTtlAfter(a, b))
        => SameAnswer(a, b)

\* C9 (amended): of two successful identical calls, the second made after the
\* first returned and within the TTL of that, the second returns the same
\* answer and sources as the first with cacheHit = true, provided the first
\* call computed and stored its record and no other call stored a record
\* under the same key in between.
C9_CacheIdempotenceStored ==
    \A a, b \in Calls :
        (a # b /\ Successful(a) /\ Successful(b) /\ SameQuery(a, b)
           /\ MadeWithinTtlAfter(a, b)
           /\ calls[a].stored /\ ~StoreBetween(a, b))
        => SameAnswer(a, b)

\* a second identical call has been served from the record the first stored
C9_Witness ==
    \E a, b \in Calls :
        /\ a # b /\ Successful(a) /\ Successful(b) /\ SameQuery(a, b)
        /\ MadeWithinTtlAfter(a, b)
        /\ calls[a].stored /\ ~StoreBetween(a, b)
        /\ calls[b].result.cacheHit
        /\ calls[b].startNow > calls[a].endNow

\* ---------------------------------------------------- pipeline properties
\* C10 (ownership): every retrieval call of a query by user U is restricted
\* to userId = U and every chunk in the returned sources belongs to U; a
\* file-scoped query of file F retrieves with fileId = F and returns chunks
\* of F only.
C10_Ownership ==
    \A c \in Calls :
        LET call == calls[c]
            sources == Range(call.result.sources)
        IN /\ call.fn = "answerQuestion" =>
                /\ \A r \in call.retrievals :
                       r.key = "userId" /\ r.value = call.userId
                /\ \A id \in sources : Corpus[id].userId = call.userId
           /\ call.fn = "answerQuestionForFile" =>
                /\ \A r \in call.retrievals :
                       r.key = "fileId" /\ r.value = call.fileId
                /\ \A id \in sources : Corpus[id].fileId = call.fileId

\* ---------------------------------------------------- liveness properties
Terminal == {"completed", "failed"}

\* what GET /status/:jobId shows of a finished job
VisiblyDone(j) == Up(API) /\ jobs[j].status \in Terminal

\* a step that adds a job to queue:rag
NewJobQueued ==
    \E e \in zsets'["queue:rag"] : e \notin zsets["queue:rag"]

\* C11 (as stated): every job POST /ask answered 202 for eventually shows
\* status completed or failed through GET /status, when Redis stays available,
\* a rag worker keeps running its loop and every pipeline call returns or
\* throws.
C11_AcceptedJobEnds ==
    \A j \in JobIds : (j \in accepted) ~> VisiblyDone(j)

\* C11 (amended): the same, provided that from some point on no further job is
\* added to queue:rag.
C11_AcceptedJobEndsUnderFiniteLoad ==
    <>[][~NewJobQueued]_vars => \A j \in JobIds : (j \in accepted) ~> VisiblyDone(j)

\* a job answered 202 has been processed and shows its terminal status
C11_Witness ==
    \E j \in accepted : VisiblyDone(j) /\ claimLog[j] = 1

\* ---------------------------------------------------------------- C12
Owns(userId, fileId) == fileId \in DOMAIN FileOwner /\ FileOwner[fileId] = userId

\* the handler of POST /ask-file/:fileId is past its registry query
PastFindOne ==
    areq.route = "ask-file" /\ apc \in {"enqueue", "hset", "zadd", "syncfile"}

InvalidInput(c) ==
    \/ ~ValidRagQuestion(calls[c].question)
    \/ calls[c].options.searchMode \notin SearchModes

\* C13: an answerQuestion call whose question is empty after trimming or whose
\* searchMode is not hybrid, vector or bm25 throws: it returns no record, and
\* it has asked no retrieval service and written no cache entry.
C13_InvalidInputFails ==
    \A c \in Calls :
        (calls[c].fn = "answerQuestion" /\ InvalidInput(c))
          => /\ calls[c].pc = "done"
             /\ calls[c].result = Thrown
             /\ calls[c].retrievals = {}
             /\ ~calls[c].stored
\* ---------------------------------------------------------------- C14
\* the step in which answerQuestion is called as call c with an empty
\* fileContext and gets no value from the cache
NoFilesCall(c) ==
    /\ calls[c].pc = "idle"
    /\ calls'[c].fn = "answerQuestion"
    /\ calls'[c].options.fileContext = "empty"
    /\ ~calls'[c].lookup.returned

\* call c has returned the canned "no documents" record and has asked no
\* retrieval service and no LLM
NoFilesReturn(c) ==
    /\ calls'[c].pc = "done"
    /\ calls'[c].result.kind = "no_files"
    /\ calls'[c].result.sources = <<>>
    /\ calls'[c].retrievals = {}
    /\ ~calls'[c].stored

\* C14 (as stated): a call with an empty fileContext and no cache hit returns
\* the canned "no documents" record at once, without any retrieval or LLM
\* call, and leaves the cache as it was.
C14_NoFilesFrame ==
    [][\A c \in Calls :
          NoFilesCall(c) => NoFilesReturn(c) /\ answerCache' = answerCache]_vars

\* C14 (amended): a call with a valid question, an empty fileContext and no
\* cache hit returns the canned "no documents" record at once, without any
\* retrieval or LLM call; the cache is as it was, except that an entry of the
\* call's own key older than the TTL is removed.
C14_NoFilesFrameButExpired ==
    [][\A c \in Calls :
          (NoFilesCall(c) /\ ValidRagQuestion(calls'[c].question))
            => /\ NoFilesReturn(c)
               /\ answerCache' =
                     SelectSeq(answerCache,
                               LAMBDA e : ~(/\ e.key = calls'[c].key
                                            /\ now - e.timestamp > CACHE_TTL_MS))]_vars

\* a call with an empty fileContext has found an expired entry under its key
\* and returned the canned record
C14_Witness ==
    \E c \in Calls :
        /\ calls[c].options.fileContext = "empty"
        /\ calls[c].result.kind = "no_files"
        /\ calls[c].lookup.found
        /\ calls[c].lookup.removed
\* ---------------------------------------------------------------- C15
\* worker w is in failJob, called from workerLoop's inner catch (line 81)
InFailJob(w) == wpc[w] \in {"fail", "fail_hdel"}

\* the job hash carries the failure
FailureRecorded(h) == h.status = "failed" /\ h.error = "set"

\* C15 (as stated): when a worker comes back to its claim loop from failJob,
\* the job it was processing has status 'failed' and carries the error.
C15_ExceptionsRecorded ==
    [][\A w \in Workers :
          (InFailJob(w) /\ wpc'[w] = "loop") => FailureRecorded(jobs'[wjob[w]])]_vars

\* C15 (amended): a step of failJob made with the availability flag up and
\* its HSET not rejected records status 'failed' and the error on the job;
\* with the flag down or the HSET rejected it leaves the job hash as it is;
\* and whichever way failJob ends, the worker is back at its claim loop.
C15_ExceptionsRecordedWhenRedisUp ==
    [][\A w \in Workers :
          /\ (wpc[w] = "fail" /\ wpc'[w] # "fail")
                => IF Up(w) /\ errs' = errs
                   THEN wpc'[w] = "fail_hdel" /\ FailureRecorded(jobs'[wjob[w]])
                   ELSE wpc'[w] = "loop" /\ jobs' = jobs
          /\ (wpc[w] = "fail_hdel" /\ wpc'[w] # "fail_hdel")
                => wpc'[w] = "loop" /\ FailureRecorded(jobs'[wjob[w]])]_vars

\* a worker has recorded the failure of one job and has claimed the next
C15_Witness ==
    \E w \in Workers, j, k \in JobIds :
        /\ j # k
        /\ FailureRecorded(jobs[j]) /\ jobs[j].worker_id = w
        /\ jobs[k].status = "running" /\ jobs[k].worker_id = w
        /\ currentJob[w] = k
\* ---------------------------------------------------------------- C16
\* worker w has popped a job from a queue (claimJob is past its ZPOPMAX, or
\* the job is being processed) and the job is neither completed nor failed
HoldsUnfinished(w) ==
    /\ wjob[w] # NoJob
    /\ wpc[w] \notin {"loop", "zpopmax"}
    /\ jobs[wjob[w]].status \notin Terminal

\* C16 (graceful shutdown): a worker that has closed its Redis connection in
\* shutdown, or has exited with code 0, holds no popped job that is neither
\* completed nor failed; only the forced exit(1) may leave such a job.
C16_GracefulShutdown ==
    \A w \in Workers :
        (spc[w] = "closed" \/ exited[w] = "0") => ~HoldsUnfinished(w)
\* ---------------------------------------------------------------- C17
\* job j was enqueued successfully: its id went into queue:rag
Enqueued(j) ==
    \/ j \in accepted
    \/ \E e \in zsets["queue:rag"] : e.member = j
    \/ claimLog[j] > 0

\* the step in which GET /status/:jobId sends its response
StatusAnswered == apc \in {"status", "hgetall"} /\ apc' = "idle"

\* C17: GET /status/:jobId answers 404 only when job:<jobId> has no hash, and
\* for an enqueued job whose hash exists it answers 200 (unless Redis rejects
\* the HGETALL), whatever the availability flag.
C17_StatusFound ==
    [][StatusAnswered
         => /\ lastResp'.status = 404 => ~HashExists(jobs[ajob])
            /\ (HashExists(jobs[ajob]) /\ Enqueued(ajob) /\ errs' = errs)
                  => lastResp'.status = 200]_vars
\* ---------------------------------------------------------------- C18
Down(p) == redisAvailable[p] = "false"

\* process p makes a step of one of the seven operations
OperationStep(p) ==
    IF p = API THEN apc' # apc /\ apc \in {"enqueue", "hset", "zadd", "status", "hgetall"}
    ELSE wpc'[p] # wpc[p] \/ hbpc'[p] # hbpc[p]

\* no command was sent: the keys are as before and no rejection was counted
NoCommand == UNCHANGED <<redisVars, errs>>

\* C18 (as stated): while the availability flag of a process is down, no step
\* of enqueue, claim, heartbeat, progress, complete, fail or status in that
\* process sends a Redis command or changes a job:*, queue:* or running:* key.
C18_NoCommandWhileDown ==
    [][\A p \in Procs :
          (Down(p) /\ OperationStep(p) /\ (p \in Workers => wpc[p] # "pipeline"))
            => NoCommand]_vars

\* where each operation goes when it returns the sentinel at its check
AfterSentinel(pc) ==
    CASE pc = "progress10" -> "pipeline"
      [] pc = "progress90" -> "complete"
      [] OTHER -> "loop"

\* C18 (amended): an operation that finds the availability flag down at its
\* entry check sends no Redis command, leaves the job:*, queue:* and running:*
\* keys unchanged and returns the sentinel: claim and heartbeat do not start,
\* progress, complete and fail return to the worker loop's next statement,
\* enqueue returns null and drew no job id, status returns null (404).
C18_NoCommandWhenCalledDown ==
    [][/\ \A w \in Workers :
            Down(w) =>
              /\ wpc[w] = "loop" => wpc'[w] = "loop"
              /\ hbpc[w] = "idle" => hbpc'[w] = "idle"
              /\ (wpc[w] \in {"progress10", "progress90", "complete", "fail"}
                    /\ wpc'[w] # wpc[w])
                   => NoCommand /\ wpc'[w] = AfterSentinel(wpc[w])
       /\ (Down(API) /\ apc \in {"enqueue", "status"} /\ apc' # apc)
            => /\ NoCommand
               /\ UNCHANGED uuids
               /\ ajob' = NoJob
               /\ apc' \in {"idle", "sync", "syncfile"}
               /\ apc = "status" => lastResp' = StatusResponse(FALSE)]_vars

\* completeJob or failJob was called with the flag down: the worker is back at
\* its loop and the job it had claimed is still 'running'
C18_Witness ==
    \E w \in Workers, j \in JobIds :
        /\ Down(w)
        /\ wpc[w] = "loop" /\ currentJob[w] = NoJob
        /\ jobs[j].status = "running" /\ jobs[j].worker_id = w
        /\ claimLog[j] = 1
\* ---------------------------------------------------------------- C19
\* worker w was terminated inside claimJob, after its ZPOPMAX had returned
\* job j and before its HSET of the job's status
CrashedInClaim(w, j) ==
    /\ exited[w] = "killed"
    /\ wjob[w] = j
    /\ wpc[w] \in {"hget", "hset_running", "hset_status"}

\* C19 (crash leak): a job whose claiming worker was terminated between the
\* ZPOPMAX and the job-hash update is in no queue, is claimed by no worker,
\* and keeps status 'queued'.
C19_CrashLeak ==
    \A w \in Workers, j \in JobIds :
        CrashedInClaim(w, j)
          => /\ \A q \in QueueKeys : \A e \in zsets[q] : e.member # j
             /\ \A v \in Workers \ {w} : wjob[v] # j
             /\ claimLog[j] = 0
             /\ jobs[j].status = "queued"

\* a worker was terminated with a popped job, and the other worker has since
\* claimed and finished the other job
C19_Witness ==
    \E w, v \in Workers, j, k \in JobIds :
        /\ CrashedInClaim(w, j)
        /\ v # w /\ k # j
        /\ jobs[k].worker_id = v /\ jobs[k].status \in Terminal
        /\ wpc[v] = "loop"
\* ---------------------------------------------------------------- C20
\* C20 (as stated): a job that a worker has popped from a queue and that is
\* neither completed nor failed is a field of that worker's running hash, in
\* every state, those inside claimJob included.
C20_RecoverableFromRunning ==
    \A w \in Workers : HoldsUnfinished(w) => wjob[w] \in running[w]

\* claimJob of worker w is past its HSET of running:<workerId> (line 215)
PastRunningWrite(w) ==
    wpc[w] \notin {"loop", "zpopmax", "hget", "hset_running"}

\* C20 (amended): from claimJob's write of running:<workerId> on, a popped job
\* that is neither completed nor failed is a field of the running hash of the
\* worker that popped it, and every job with status 'running' is a field of
\* some worker's running hash.
C20_RecoverableOnceRecorded ==
    /\ \A w \in Workers :
          (HoldsUnfinished(w) /\ PastRunningWrite(w)) => wjob[w] \in running[w]
    /\ \A j \in JobIds :
          jobs[j].status = "running" => \E w \in Workers : j \in running[w]

\* a worker was terminated while processing its job: the job is 'running' and
\* a field of running:<workerId>
C20_Witness ==
    \E w \in Workers :
        /\ exited[w] = "killed"
        /\ currentJob[w] # NoJob
        /\ jobs[currentJob[w]].status = "running"
        /\ currentJob[w] \in running[w]
\* ---------------------------------------------------------------- C21
\* worker w has finished job j (status written) and is polling again
FinishedAndPolling(w, j) ==
    /\ jobs[j].status \in Terminal
    /\ jobs[j].worker_id = w
    /\ wpc[w] = "loop"
    /\ wjob[w] = NoJob

\* C21: once a job is completed or failed and its worker is back at polling,
\* running:<workerId> has no field for the job, however the heartbeat
\* callback's two writes interleave with completeJob / failJob (no command
\* being rejected).
C21_RunningFieldRemoved ==
    \A w \in Workers, j \in JobIds :
        (FinishedAndPolling(w, j) /\ errs = 0) => j \notin running[w]
\* ---------------------------------------------------------------- C22
\* worker w issues its next claim: claimJob goes on to its first ZPOPMAX
IssuesClaim(w) == wpc[w] = "loop" /\ wpc'[w] = "zpopmax"

\* the interval callback of worker w starts a sendHeartbeat
StartsHeartbeat(w) == hbpc[w] = "idle" /\ hbpc'[w] = "hb_job"

\* C22: when a worker issues a claim, its heartbeat timer is stopped and its
\* current job is cleared, whichever way the processing of the job before
\* ended; and a heartbeat is only started for the job the worker is
\* processing.
C22_HeartbeatStoppedBeforeClaim ==
    [][\A w \in Workers :
          /\ IssuesClaim(w)
                => heartbeatInterval[w] = NoJob /\ currentJob[w] = NoJob
          /\ StartsHeartbeat(w)
                => wjob[w] = hbjob'[w] /\ wpc[w] # "loop"]_vars
\* ---------------------------------------------------------------- C23
\* a Redis command sent by an operation of process p was rejected
CommandRejected(p) == OperationStep(p) /\ errs' = errs + 1

\* C23: a step in which a command of a queue operation is rejected leaves the
\* availability flag of its process down; a PING that answers and a connect
\* event leave it up.
C23_ErrorFlipsDown ==
    [][\A p \in Procs :
          /\ CommandRejected(p) => redisAvailable'[p] = "false"
          /\ (redisAvailable[p] = "null" /\ redisAvailable'[p] # "null" /\ errs' = errs)
                => redisAvailable'[p] = "true"
          /\ (redisAvailable[p] = "false" /\ redisAvailable'[p] # "false")
                => redisAvailable'[p] = "true"]_vars
\* ---------------------------------------------------------------- C24
NativeQueue == "queue:" \o WORKER_TYPE

\* the id worker w has popped has no payload in its hash
PayloadMissing(w) == wpc[w] = "hget" /\ jobs[wjob[w]].payload = NoPayload

\* the ids in queue q
Members(q) == {e.member : e \in zsets[q]}

\* C24: claimJob probes the native queue first and queue:any second; it goes
\* on to queue:any only from an empty native queue or from a popped id
\* without payload, and only then pops from queue:any; an id without payload
\* is dropped, with no job:* or running:* field written for it, and the claim
\* moves on to the next queue (or returns null after the last).
C24_NativeQueueFirst ==
    [][\A w \in Workers :
          /\ (wpc[w] = "loop" /\ wpc'[w] = "zpopmax")
                => ClaimQueues(WORKER_TYPE)[wqi'[w]] = NativeQueue
          /\ (wpc[w] = "zpopmax" /\ wpc'[w] = "hget")
                => /\ wjob'[w] \in Members(ClaimQueues(WORKER_TYPE)[wqi[w]])
                   /\ ClaimQueues(WORKER_TYPE)[wqi[w]] = "queue:any"
                         => wqi[w] = 2
          /\ (wqi[w] = 1 /\ wqi'[w] = 2)
                => \/ wpc[w] = "zpopmax" /\ zsets[NativeQueue] = {} /\ errs' = errs
                   \/ PayloadMissing(w) /\ errs' = errs
          /\ (PayloadMissing(w) /\ wpc'[w] # "hget" /\ errs' = errs)
                => /\ UNCHANGED <<jobs, running>>
                   /\ \A q \in QueueKeys : wjob[w] \notin Members(q)
                   /\ IF wqi[w] = 1
                      THEN wpc'[w] = "zpopmax" /\ wqi'[w] = 2
                      ELSE wpc'[w] = "loop"]_vars

\* the worker has claimed a job from queue:any after the id it had popped
\* from its native queue turned out to have no payload
C24_Witness ==
    \E j, k \in JobIds :
        /\ j # k
        /\ ~HashExists(jobs[j]) /\ j \in uuids
        /\ \A q \in QueueKeys : j \notin Members(q)
        /\ jobs[k].status = "running" /\ jobs[k].worker_id = "w1"
        /\ currentJob["w1"] = k
        /\ zsets[NativeQueue] = {} /\ claimLog[k] = 1 /\ claimLog[j] = 0
\* ---------------------------------------------------------------- C25
\* call c is answerQuestion in hybrid mode
HybridCall(c) ==
    calls[c].fn = "answerQuestion" /\ Config(calls[c].options).searchMode = "hybrid"

\* the BM25 search of call c has been awaited: its result is in hand
BM25Awaited(c) ==
    \E r \in calls[c].retrievals : r.service = "bm25"

\* the vector retrieval of call c has been started (the request is out, or
\* has been answered)
VectorStarted(c) ==
    \/ calls[c].pc = "vector"
    \/ \E r \in calls[c].retrievals : r.service = "vector"

\* C25: in hybrid mode the vector retrieval is started before the BM25 result
\* is awaited (the two run concurrently), and results are fused only after
\* both have returned.
C25_ConcurrentRetrieval ==
    \A c \in Calls :
        HybridCall(c) =>
          /\ (BM25Awaited(c) /\ calls[c].pc # "done") => VectorStarted(c)
          /\ calls[c].finalResults # <<>>
                => BM25Awaited(c) /\ \E r \in calls[c].retrievals : r.service = "vector"
\* ---------------------------------------------------------------- C26
\* call c has returned a record that answerQuestion built itself
BuiltRecord(c) ==
    /\ calls[c].pc = "done" /\ calls[c].fn = "answerQuestion"
    /\ calls[c].result.kind = "record" /\ ~calls[c].result.cacheHit

\* every chunk of the context is one of the sources
ContextFromSources(record) ==
    \A i \in 1..Len(record.context.parts) :
        record.context.parts[i].chunk \in Range(record.sources)

\* C26: chunksUsed of a returned record is the number of chunks whose formatted
\* text is in the context passed to the LLM, and the chunks dropped for length
\* are still among the sources.
C26_ChunksUsed ==
    \A c \in Calls :
        BuiltRecord(c) =>
          /\ calls[c].result.chunksUsed = Len(calls[c].result.context.parts)
          /\ ContextFromSources(calls[c].result)

\* the half of C26 that holds: a chunk dropped for length is a source all the
\* same, the sources being the whole of finalResults
C26_DroppedStaySources ==
    \A c \in Calls :
        BuiltRecord(c) =>
          /\ ContextFromSources(calls[c].result)
          /\ calls[c].result.chunksUsed = Len(calls[c].result.sources)

\* ---------------------------------------------------------------- C27
\* the formatted length of the first k chunks of a list
RECURSIVE PrefixLength(_, _)
PrefixLength(chunks, k) ==
    IF k = 0 THEN 0
    ELSE PrefixLength(chunks, k - 1) + FormattedLength(k, chunks[k])

\* the length of the longest prefix of a list that fits maxLength
LongestFit(chunks, maxLength) ==
    CHOOSE n \in 0..Len(chunks) :
        /\ PrefixLength(chunks, n) <= maxLength
        /\ \A k \in 0..Len(chunks) : PrefixLength(chunks, k) <= maxLength => k <= n

\* call c has returned a record whose context it assembled itself
AssembledContext(c) ==
    /\ calls[c].pc = "done" /\ calls[c].result.kind = "record"
    /\ ~calls[c].result.cacheHit

\* C27: the context of a returned record is made of the longest prefix of its
\* sources whose formatted chunks fit maxContextLength together, the i-th
\* chunk under the label Source i, and it is no longer than maxContextLength
\* (its length is that of the prefix less the two line feeds trimmed off).
C27_ContextAssembly ==
    \A c \in Calls :
        AssembledContext(c) =>
          LET record == calls[c].result
              maxLength == Config(calls[c].options).maxContextLength
              n == LongestFit(record.sources, maxLength)
          IN /\ record.context.parts =
                    [i \in 1..n |-> [label |-> i, chunk |-> record.sources[i]]]
             /\ record.context.length <= maxLength
             /\ record.context.length =
                    IF n = 0 THEN 0 ELSE PrefixLength(record.sources, n) - 2

\* a context that stops at a chunk that does not fit, one that is empty though
\* the second chunk alone would fit, and one that fits to the character
C27_Witness ==
    /\ \E c \in Calls :
          /\ AssembledContext(c)
          /\ Len(calls[c].result.context.parts) = 1
          /\ Len(calls[c].result.sources) = 2
    /\ \E c \in Calls :
          /\ AssembledContext(c)
          /\ calls[c].result.sources = <<"c1", "c2">>
          /\ calls[c].result.context.parts = <<>>
\* ---------------------------------------------------------------- C28
\* chunk id satisfies the filter that call c passes to the vector store
SatisfiesFilter(c, id) ==
    Corpus[id][VectorFilter(calls[c]).key] = VectorFilter(calls[c]).value

\* call c asked the vector store and has returned a record
VectorRecord(c) ==
    /\ calls[c].pc = "done" /\ calls[c].result.kind = "record"
    /\ \E r \in calls[c].retrievals : r.service = "vector"

\* C28: no chunk that violates the filter of the request is among the sources
\* of a returned record or in the context sent to the LLM, whatever the vector
\* store returned.
C28_FilterEnforced ==
    \A c \in Calls :
        VectorRecord(c) =>
          /\ \A id \in Range(calls[c].result.sources) : SatisfiesFilter(c, id)
          /\ \A i \in 1..Len(calls[c].result.context.parts) :
                SatisfiesFilter(c, calls[c].result.context.parts[i].chunk)
\* ---------------------------------------------------------------- C29
\* call c of function fn has returned a record
ReturnedRecord(c, fn) ==
    /\ calls[c].pc = "done" /\ calls[c].fn = fn
    /\ calls[c].result.kind = "record"

\* every source of the record of call c scores minScore or more
SourcesAboveMinScore(c) ==
    \A id \in Range(calls[c].result.sources) :
        Corpus[id].score >= Config(calls[c].options).minScore

\* C29: every source that answerQuestionForFile returns has a score of
\* minScore or more, as in vector mode.
C29_FileMinScore ==
    \A c \in Calls :
        ReturnedRecord(c, "answerQuestionForFile") => SourcesAboveMinScore(c)

\* the behaviour C29 compares with: vector mode drops what scores below
\* minScore
C29_VectorMinScore ==
    \A c \in Calls :
        (ReturnedRecord(c, "answerQuestion")
            /\ Config(calls[c].options).searchMode = "vector")
        => SourcesAboveMinScore(c)
\* ---------------------------------------------------------------- C30
\* the POST /embed requests call c has sent
Posts(c) == Len(embed[c].sentAt)

\* C30: one call of generateEmbedding sends at most two POST /embed requests:
\* a request that times out is retried once, after a wait of one second, and
\* the call fails when the second request times out too.
C30_OneRetry ==
    \A c \in EmbedIds :
        /\ Posts(c) <= 2
        /\ embed[c].delays <= 1
        /\ embed[c].timeouts >= 2 => embed[c].result = "threw_timeout"

\* the part of C30 that holds: only a timeout is retried, a retry comes one
\* second or more after the abort of the request before it, and a call whose
\* requests all time out fails (with the timeout error, or as unavailable when
\* the health check before a retry fails)
C30_OnlyTimeoutsRetried ==
    \A c \in EmbedIds :
        /\ Posts(c) <= embed[c].timeouts + 1
        /\ embed[c].delays <= embed[c].timeouts
        /\ \A i \in 2..Posts(c) :
              embed[c].sentAt[i] >=
                  embed[c].sentAt[i - 1] + REQUEST_TIMEOUT + RetryDelayMs
        /\ (embed[c].pc = "done" /\ Posts(c) > 0 /\ embed[c].timeouts = Posts(c))
              => embed[c].result \in {"threw_timeout", "threw_unavailable"}
        /\ embed[c].result \in {"threw_error", "embedding", "null"}
              => embed[c].timeouts = Posts(c) - (IF Posts(c) = 0 THEN 0 ELSE 1)

\* what the code does: up to MAX_RETRIES retries, MAX_RETRIES + 1 requests
C30_RetriesBounded ==
    \A c \in EmbedIds :
        /\ Posts(c) <= MAX_RETRIES + 1
        /\ embed[c].delays <= MAX_RETRIES
        /\ embed[c].timeouts > MAX_RETRIES => embed[c].result = "threw_timeout"

\* a call that has sent three requests
C30_ThreePosts == \E c \in EmbedIds : Posts(c) = 3
\* ---------------------------------------------------------------- C31
\* the GET /health requests sent so far: the call, the place of the request
\* among those of the call, and the time it was sent at
SentProbes ==
    UNION {{[call |-> c, n |-> i, at |-> embed[c].probedAt[i]] :
               i \in 1..Len(embed[c].probedAt)} : c \in EmbedIds}

\* a call that found the cached flag false has failed as unavailable and has
\* sent no POST /embed since
FailedUnavailable(c) ==
    /\ embed[c].pc = "done" /\ embed[c].result = "threw_unavailable"
    /\ Posts(c) = embed[c].postsThen

\* C31: two /health probes are never sent within 60 s of each other, whatever
\* calls of embed run at the same time, and a call that finds the cached flag
\* unhealthy fails as unavailable without sending POST /embed.
C31_OneProbePerInterval ==
    /\ \A p, q \in SentProbes :
          p # q => \/ p.at >= q.at + HEALTH_CHECK_INTERVAL
                   \/ q.at >= p.at + HEALTH_CHECK_INTERVAL
    /\ \A c \in EmbedIds : embed[c].sawUnhealthy => FailedUnavailable(c)

\* the part of C31 that holds: the cached unhealthy flag fails a call without
\* a POST /embed
C31_UnhealthyShortCircuits ==
    \A c \in EmbedIds : embed[c].sawUnhealthy => FailedUnavailable(c)

\* a call has failed on the cached flag
C31_ShortCircuited == \E c \in EmbedIds : embed[c].sawUnhealthy
\* ---------------------------------------------------------------- C32
\* the call of generateBatchEmbeddings has returned
BatchReturned == batch.pc = "done"

\* the number of batches of BATCH_SIZE that n texts make
BatchCount(n) == (n + BATCH_SIZE - 1) \div BATCH_SIZE

\* the batch, counted from 1, that the text at position k belongs to
BatchOf(k) == ((k - 1) \div BATCH_SIZE) + 1

\* C32: the list generateBatchEmbeddings returns is as long as its input; entry
\* k is the vector the service returned for text k, or null when it returned
\* none or the batch of text k failed; every batch is requested, also after a
\* failed one.
C32_BatchResults ==
    BatchReturned =>
      /\ Len(batch.results) = Len(batch.texts)
      /\ batch.requests = BatchCount(Len(batch.texts))
      /\ Len(batch.responses) = batch.requests
      /\ \A k \in 1..Len(batch.texts) :
            LET response == batch.responses[BatchOf(k)]
            IN batch.results[k] =
                  IF ~response.failed /\ k \in response.valid THEN k ELSE NoVector

\* 25 texts, the middle batch failed, the first and the last answered in full
C32_Witness ==
    /\ BatchReturned
    /\ Len(batch.texts) = 25 /\ Len(batch.results) = 25
    /\ batch.responses[2].failed
    /\ batch.results[12] = 12 /\ batch.results[13] = NoVector
    /\ batch.results[24] = NoVector /\ batch.results[25] = 25

\* 13 texts and the second batch, of one text, failed
C32_LastBatchFailed ==
    /\ BatchReturned
    /\ Len(batch.texts) = 13 /\ batch.responses[2].failed
\* ---------------------------------------------------------------- C33
\* the ids waiting in any queue
Waiting == UNION {Members(q) : q \in AllQueues}

\* worker w has popped an id and is about to read its payload
Popped(w) == wpc[w] = "hget"

\* C33: every id in a queue has a job hash with status queued and a payload,
\* and the id a claim has popped has a payload to be read.
C33_QueuedHaveHash ==
    /\ \A j \in Waiting :
          /\ HashExists(jobs[j])
          /\ jobs[j].status = "queued"
          /\ jobs[j].payload # NoPayload
    /\ \A w \in Workers : Popped(w) => jobs[wjob[w]].payload # NoPayload

\* a worker has popped one id while another waits in a queue
C33_Witness ==
    /\ Popped("w1")
    /\ \E j \in Waiting : j # wjob["w1"]

\* ---------------------------------------------------------------- C34
\* job j is held by a call of enqueueJob / enqueueRagJob between its hset and
\* its zadd
BeingEnqueued(j) == ajob = j /\ apc = "zadd"

\* job j has been popped by a claim that has not written status running yet
BeingClaimed(j) ==
    \E w \in Workers :
        wjob[w] = j /\ wpc[w] \in {"hget", "hset_running", "hset_status"}

\* C34: a job hash in status queued is in a queue, or on its way into one or
\* out of one: a call that returned null has left no hash behind.
C34_FailedEnqueueLeavesNothing ==
    \A j \in JobIds :
        jobs[j].status = "queued"
           => j \in Waiting \/ BeingEnqueued(j) \/ BeingClaimed(j)

\* the part of C34 that holds: a call that returned null has left no queue
\* entry behind, every id in a queue having been returned by its call or being
\* claimed
C34_NoQueueEntryLeft ==
    \A j \in Waiting : j \in uuids /\ ~BeingEnqueued(j)

\* ---------------------------------------------------------------- C39
\* getQueueStats has returned counts
StatsCounted == stats.answered = "counted" /\ apc = "idle"

\* C39: the total getQueueStats returns is the number of ids waiting in all
\* the queues.
C39_StatsTotal ==
    [][(apc = "zcard" /\ stats'.answered = "counted")
          => stats'.total = Cardinality(Waiting)]_vars

\* the part of C39 that holds: the total is the number of ids waiting in
\* queue:cpu, queue:gpu and queue:any
C39_StatsTotalOfThree ==
    [][(apc = "zcard" /\ stats'.answered = "counted")
          => stats'.total = Cardinality(UNION {Members(q) : q \in StatQueues})]_vars

\* ============================ recovery of the connection (getRedisClient)
\* retryStrategy(times) of lines 47-52: the delay before the next reconnect
\* attempt, or StopRetrying (null) to give the connection up
StopRetrying == 0 - 1

Min(a, b) == IF a < b THEN a ELSE b

RetryStrategy(times) == IF times > 2 THEN StopRetrying ELSE Min(times * 100, 500)

\* the client of process p holds an open connection to a server that answers
Connected(p) == redis[p].status = "ready" /\ reachable

\* the largest count of attempts the client keeps
MaxTimes == 3

\* the Redis server stops being reachable from the API process: an open
\* connection is broken ("lost") before the client has emitted its event
ServerDown ==
    /\ reachable
    /\ reachable' = FALSE
    /\ redis' = [redis EXCEPT ![API] = IF @.status = "ready"
                                       THEN [@ EXCEPT !.status = "lost"] ELSE @]
    /\ UNCHANGED <<queueVars, ragVars, ctlVars>>

\* the Redis server is reachable again
ServerUp ==
    /\ ~reachable
    /\ reachable' = TRUE
    /\ UNCHANGED <<queueVars, ragVars, ctlVars, redis>>

\* isRedisAvailable lines 26-35 with the flag unknown: getRedisClient creates
\* the client (lines 41-57), ping() connects it; 'connect' sets the flag (lines
\* 69-72) and the PING answers, or the PING rejects and the catch sets the
\* flag to false while the client goes on to reconnect
ClientPing(p) ==
    /\ redisAvailable[p] = "null"
    /\ p = API /\ apc \in {"enqueue", "status", "stats"}
    /\ redis[p].status = "wait"
    /\ IF reachable
       THEN /\ redis' = [redis EXCEPT ![p] = ReadyClient]
            /\ redisAvailable' = [redisAvailable EXCEPT ![p] = "true"]
       ELSE /\ redis' = [redis EXCEPT ![p] = [status |-> "reconnecting", times |-> 1]]
            /\ redisAvailable' = [redisAvailable EXCEPT ![p] = "false"]
    /\ UNCHANGED <<redisVars, workerVars, apiVars, histVars, ragVars, ctlVars,
                   reachable>>

\* the client finds its connection broken: redis.on('error') of lines 60-63,
\* and it schedules its first reconnect attempt
ConnectionLost(p) ==
    /\ redis[p].status = "lost"
    /\ redis' = [redis EXCEPT ![p] = [status |-> "reconnecting", times |-> 1]]
    /\ redisAvailable' = [redisAvailable EXCEPT ![p] = "false"]
    /\ UNCHANGED <<redisVars, workerVars, apiVars, histVars, ragVars, ctlVars,
                   reachable>>

\* a reconnect attempt: redis.on('connect') of lines 69-72 when the server
\* answers; otherwise 'error' (lines 60-63), retryStrategy is asked again, and
\* when it returns null the client ends: redis.on('end') of lines 65-67
Reconnect(p) ==
    /\ redis[p].status = "reconnecting"
    /\ IF reachable
       THEN /\ redis' = [redis EXCEPT ![p] = ReadyClient]
            /\ redisAvailable' = [redisAvailable EXCEPT ![p] = "true"]
       ELSE /\ redis' = [redis EXCEPT ![p] =
                   IF RetryStrategy(Min(@.times + 1, MaxTimes)) = StopRetrying
                   THEN [status |-> "end", times |-> Min(@.times + 1, MaxTimes)]
                   ELSE [status |-> "reconnecting",
                         times |-> Min(@.times + 1, MaxTimes)]]
            /\ redisAvailable' = [redisAvailable EXCEPT ![p] = "false"]
    /\ UNCHANGED <<redisVars, workerVars, apiVars, histVars, ragVars, ctlVars,
                   reachable>>

\* enqueueRagJob's hset or zadd on a client without a connection rejects: the
\* catch of lines 179-183
EnqueueRejected ==
    /\ apc \in {"hset", "zadd"}
    /\ ~Connected(API)
    /\ redisAvailable' = [redisAvailable EXCEPT ![API] = "false"]
    /\ EnqueueFails
    /\ UNCHANGED <<redisVars, workerVars, uuids, histVars, ragVars, ctlVars,
                   connVars>>

\* enqueueRagJob's commands on the connected client
EnqueueConnected ==
    /\ Connected(API)
    /\ \/ \E id \in JobIds : ApiEnqueue(id)
       \/ ApiHSet(TRUE)
       \/ ApiZAdd(TRUE)

\* enqueueRagJob's availability check (lines 140-143) needs no connection
EnqueueCheck ==
    /\ ~Connected(API)
    /\ \E id \in JobIds : ApiEnqueue(id)

\* An id drawn by an enqueue call that failed: no queue, worker or call refers
\* to it any more.  The id then stands for a uuid not drawn yet.
Recycle(j) ==
    /\ j \in uuids
    /\ ajob # j
    /\ jobs[j].status \in {NoHash.status, "queued"}
    /\ \A q \in AllQueues : j \notin Members(q)
    /\ \A w \in Workers : wjob[w] # j /\ hbjob[w] # j /\ heartbeatInterval[w] # j
    /\ jobs' = [jobs EXCEPT ![j] = NoHash]
    /\ uuids' = uuids \ {j}
    /\ UNCHANGED <<zsets, running, redisAvailable, workerVars, apc, areq, ajob,
                   lastResp, histVars>>
    /\ UNCHANGED <<ragVars, ctlVars, connVars>>

\* POST /ask under a steady load while the Redis server goes away and comes
\* back; one worker of class rag whose own connection holds.
InitRecover ==
    QueueStart(MaxErrors) /\ RagInit(<<>>) /\ CtlInit

NextRecover ==
    \/ ServerDown
    \/ ServerUp
    \/ ClientPing(API)
    \/ ConnectionLost(API)
    \/ Reconnect(API)
    \/ \E q \in Questions : AskRequest(q)
    \/ EnqueueCheck
    \/ EnqueueConnected
    \/ EnqueueRejected
    \/ \E returns \in BOOLEAN : ApiSync(returns)
    \/ WorkerStep({"w1"})
    \/ \E j \in JobIds : GarbageCollect(j)
    \/ \E j \in JobIds : Recycle(j)

\* Requests keep arriving and every handler, timer and worker step that can
\* run does run.
FairRecover ==
    /\ WF_vars(AskRequest("q"))
    /\ WF_vars(ClientPing(API))
    /\ WF_vars(ConnectionLost(API))
    /\ WF_vars(Reconnect(API))
    /\ WF_vars(EnqueueCheck)
    /\ WF_vars(EnqueueConnected)
    /\ WF_vars(EnqueueRejected)
    /\ WF_vars(\E returns \in BOOLEAN : ApiSync(returns))
    /\ WF_vars(WorkerStep({"w1"}))
    /\ WF_vars(\E j \in JobIds : GarbageCollect(j))
    /\ WF_vars(\E j \in JobIds : Recycle(j))

SpecRecover == InitRecover /\ [][NextRecover]_vars /\ FairRecover

\* C35: once Redis stays reachable and requests keep arriving, POST /ask
\* answers 202 again and again: the availability state does not stay down.
C35_EnqueueRecovers ==
    (<>[]reachable) => []<>(lastResp.route = "ask" /\ lastResp.status = 202)

\* (C35, first half) the availability state leaves down only through the
\* client's 'connect' event.
C35_DownLeftByConnect ==
    [][(redisAvailable[API] = "false" /\ redisAvailable'[API] # "false")
          => (redis[API].status = "reconnecting" /\ redis'[API].status = "ready")]_vars

\* (C35) the client has given up while Redis is reachable again
C35_GaveUp == redis[API].status = "end" /\ reachable /\ redisAvailable[API] = "false"

\* ================================================= GET /status/:jobId
\* One worker, a producer of RAG jobs for user u1, and the users polling
\* GET /status/:jobId with ids of their choice.
NextStatus ==
    \/ \E ok \in BOOLEAN : Ping(API, ok)
    \/ WorkerStep({"w1"})
    \/ \E q \in Questions : AskRequest(q)
    \/ EnqueueStep
    \/ \E returns \in BOOLEAN : ApiSync(returns)
    \/ \E u \in Users, id \in JobIds : StatusRequestBy(u, id)
    \/ StatusStep

SpecStatus == Init /\ [][NextStatus]_vars

\* C36: GET /status/:jobId answers 200 with the job's snapshot only when the
\* requesting user is the user in the job's payload.
C36_OnlyOwnerSeesJob ==
    [][(apc = "hgetall" /\ lastResp'.status = 200)
          => areq.userId = jobs[ajob].payload.userId]_vars

\* (C36) the owner of a completed job is sent its result
C36_OwnerSeesResult ==
    [][(apc = "hgetall" /\ lastResp'.status = 200
          /\ areq.userId = jobs[ajob].payload.userId
          /\ jobs[ajob].status = "completed")
          => lastResp'.data.result = jobs[ajob].result]_vars

\* ================================================== cache keys of two users
\* what the callers pass here: a search mode and a question with '|' in
\* them, which for one user make two different queries share a key
KeyModes == {"hybrid", "hybrid|5|0.3|x"}
KeyQuestions == {"q", "x|5|0.3|q"}

\* the callers: two users and a caller without userId
KeyUsers == Users \cup {Undefined}

\* the files asked about; one has the id of a user
KeyFiles == {"f1", "u1"}

\* Queries of two users and of a caller without userId, and queries of single
\* files, with '|' in the search modes and the questions.
NextKeys ==
    \/ \E c \in Queries, q \in KeyQuestions, u \in KeyUsers,
          o \in OptionsOf(KeyModes, {Undefined}) :
          AnswerQuestion(c, q, u, o)
    \/ \E c \in Queries, f \in KeyFiles, o \in OptionsOf({"hybrid"}, {Undefined}) :
          AnswerQuestionForFile(c, "q", f, o)
    \/ PipelineStep({<<>>, <<"c1">>})

SpecKeys == Init /\ [][NextKeys]_vars

\* the calls that stored the entry of key k
StoredUnder(k) == {d \in Calls : calls[d].stored /\ calls[d].key = k}

\* C37: a record answerQuestion returns from the cache was stored by a call of
\* answerQuestion for the same userId, and no key of answerQuestion is a key
\* of answerQuestionForFile.
C37_CacheIsolation ==
    /\ \A c \in Calls :
          (calls[c].fn = "answerQuestion" /\ calls[c].pc = "done" /\ calls[c].result.cacheHit)
          => \A d \in StoredUnder(calls[c].key) :
                calls[d].fn = "answerQuestion" /\ calls[d].userId = calls[c].userId
    /\ \A c, d \in Calls :
          (calls[c].fn = "answerQuestion" /\ calls[d].fn = "answerQuestionForFile") => calls[c].key # calls[d].key

\* (C37) two users have asked the same question with the same options: the
\* second was not answered from the record of the first, and a call whose
\* search mode and question spell the same key was answered with the
\* caller's own record
C37_Witness ==
    \E c, d \in Calls :
        /\ calls[d].fn = "answerQuestion" /\ calls[d].stored
        /\ calls[c].fn = "answerQuestion" /\ calls[c].pc = "done"
        /\ d \in calls[c].startedAfter
        /\ calls[c].question = calls[d].question
        /\ calls[c].options = calls[d].options
        /\ calls[c].userId # calls[d].userId
        /\ ~calls[c].lookup.found

\* (C37) a call was answered with the caller's own record of another question
C37_SameUserShares ==
    \E c, d \in Calls :
        /\ calls[c].pc = "done" /\ calls[c].result.cacheHit
        /\ d \in StoredUnder(calls[c].key)
        /\ calls[d].question # calls[c].question

\* =============================== the worker's answer and POST /ask-sync's
\* the users asking here: u1 has indexed files, u3 has uploaded none
EquivUsers == {"u1", "u3"}

\* File.find({ userId }).select('fileName') of handleAskSync line 33, as the
\* fileContext the pipeline tests: the user's files, an empty list without any
FileNames(userId) ==
    IF \E id \in DOMAIN Corpus : Corpus[id].userId = userId THEN "some" ELSE "empty"

\* the options of processJob lines 35-38: topK || 5, minScore || 0.3
WorkerOptions ==
    [searchMode |-> DEFAULT_CONFIG.searchMode, topK |-> DEFAULT_CONFIG.topK,
     minScore |-> DEFAULT_CONFIG.minScore,
     maxContextLength |-> DEFAULT_CONFIG.maxContextLength,
     fileContext |-> Undefined]

\* the options of handleAskSync lines 38-42: the same with fileContext
SyncOptions(userId) == [WorkerOptions EXCEPT !.fileContext = FileNames(userId)]

\* processJob line 35: the worker's call for a RAG_QUERY job of userId
ProcessJobCall(c, question, userId) ==
    AnswerQuestion(c, question, userId, WorkerOptions)

\* handleAskSync line 38: the route's call for the authenticated user
HandleAskSyncCall(c, question, userId) ==
    AnswerQuestion(c, question, userId, SyncOptions(userId))

\* The same question answered for a user by the worker and by POST /ask-sync.
NextEquiv ==
    \/ \E c \in Queries, u \in EquivUsers : ProcessJobCall(c, "q", u)
    \/ \E c \in Queries, u \in EquivUsers : HandleAskSyncCall(c, "q", u)
    \/ PipelineStep({<<>>, <<"c1">>})

SpecEquiv == Init /\ [][NextEquiv]_vars

\* call c was made by the worker, call d by handleAskSync, for the same user,
\* question, topK and minScore; both found the cache empty, both returned, and
\* the retrieval services and the LLM answered both alike
SameQueryBothWays(c, d) ==
    /\ calls[c].pc = "done" /\ calls[d].pc = "done"
    /\ calls[c].options = WorkerOptions
    /\ calls[d].options = SyncOptions(calls[d].userId)
    /\ calls[c].userId = calls[d].userId
    /\ calls[c].question = calls[d].question
    /\ ~calls[c].lookup.found /\ ~calls[d].lookup.found
    /\ calls[c].result.kind # "threw" /\ calls[d].result.kind # "threw"
    /\ calls[c].result.sources = calls[d].result.sources
    /\ (calls[c].result.kind = "record" /\ calls[d].result.kind = "record")
          => calls[c].result.answer = calls[d].result.answer

\* C38: for the same user, question, topK and minScore, an unchanged corpus
\* and an empty cache, the record the worker obtains for a RAG_QUERY job equals
\* the record POST /ask-sync returns, whatever files the user has.
C38_WorkerEqualsSync ==
    \A c, d \in Calls : SameQueryBothWays(c, d) => calls[c].result = calls[d].result

\* (C38) the two records are equal for a user who has files
C38_EqualWithFiles ==
    \A c, d \in Calls :
        (SameQueryBothWays(c, d) /\ FileNames(calls[c].userId) # "empty")
        => calls[c].result = calls[d].result

\* (C38) both ways have answered a user who has files with a generated answer
C38_BothAnswered ==
    \E c, d \in Calls :
        /\ SameQueryBothWays(c, d)
        /\ calls[c].result.kind = "record"

\* ---------------------------------------------------------------- C40
\* the records stored in the cache
Cached == {answerCache[i].value : i \in 1..Len(answerCache)}

\* C40: every cache entry is a record generated by a run that retrieved at
\* least one chunk and whose LLM call answered: never a canned answer, the
\* outcome of a failed run, or a copy marked cacheHit.
C40_CacheHoldsGeneratedRecords ==
    /\ \A v \in Cached :
          /\ v.kind = "record"
          /\ ~v.cacheHit
          /\ Len(v.sources) >= 1
          /\ v.answer \in Answers
    /\ \A i \in 1..Len(answerCache) :
          \E c \in Calls : calls[c].stored /\ calls[c].key = answerCache[i].key
                           /\ calls[c].result = answerCache[i].value

\* (C40) the cache holds a record while one call was answered from the cache
\* and another returned a canned answer or threw
C40_Witness ==
    /\ Len(answerCache) >= 1
    /\ \E c \in Calls : calls[c].pc = "done" /\ calls[c].result.cacheHit
    /\ \E d \in Calls : /\ calls[d].pc = "done"
                        /\ calls[d].result.kind \in {"no_files", "no_results", "threw"}
====
